---- MODULE Spec2Model ----
(***************************************************************************)
(* A model of the xwiimote-rs asynchronous I/O core: the epoll Reactor     *)
(* (src/src/reactor.rs), the per-device EventStream (src/src/events.rs)    *)
(* and the device Monitor stream (src/src/lib.rs).                         *)
(*                                                                         *)
(* Event masks are sets of flag names ("IN" = EPOLLIN, "PRI" = EPOLLPRI,   *)
(* "HUP" = EPOLLHUP, "ET" = EPOLLET); the bitwise or of the code is set    *)
(* union.  The kernel's epoll instance is modelled by its interest list    *)
(* (keyed by descriptor, as EPOLL_CTL_ADD/DEL are) and its ready list.     *)
(***************************************************************************)
EXTENDS Naturals, Sequences, FiniteSets, TLC

VARIABLES
    epoll,      \* kernel interest list of ep_fd: descriptor -> epoll_event
    ready,      \* kernel ready list of ep_fd: sequence of epoll_event
    wakers,     \* Reactor.wakers: Interest -> Waker
    woken,      \* Waker -> number of times wake() was called on it
    nextWaker,  \* the next fresh Waker handed to set_callback by the client
    bgPc,       \* position of the event-loop thread inside run / wake_ready
    term,       \* the flag `term` of Reactor::run, set by the SIGTERM handler
    bgEvents,   \* the `events` buffer of Reactor::run / wake_ready
    bgInvoked,  \* the wakers invoked by the last wake pass, in order
    rcPc,       \* position of the direct client of the Reactor
    rcArg,      \* the Interest of the client's remove_interest in progress
    rcLast,     \* the client's last completed Reactor call and its result
    rcHeld,     \* the waker stored for rcArg when remove_interest was called
    devQueue,   \* raw events the device holds for xwii_iface_dispatch
    esState,    \* whether an EventStream of the device exists
    have_interest,  \* EventStream.have_interest
    esPc,       \* position of the stream's consumer inside poll_next / drop
    esLast,     \* the stream's last completed operation and its result
    esGone,     \* whether the stream has read XWII_EVENT_GONE, and was polled since
    esFailed,   \* whether a poll of the stream has returned a dispatch error
    esRemoves,  \* calls of Reactor::remove_interest made by the stream
    esPanic,    \* whether dropping the stream panicked
    monState,   \* whether a Monitor exists
    monDiscover,    \* the `discover` argument the Monitor was created with
    mon_fd,     \* Monitor.mon_fd
    enumerated, \* Monitor.enumerated
    monEnum,    \* connected devices xwii_monitor_poll has yet to enumerate
    monHot,     \* hot-plugged devices xwii_monitor_poll has yet to report
    monPc,      \* position of the monitor's consumer inside poll_next / drop
    monOut,     \* the results of the monitor's completed polls, in order
    monInit,    \* the devices that were connected when the Monitor was created
    monPlugged, \* the devices hot-plugged since the Monitor was created
    monRemoves, \* calls of Reactor::remove_interest made by the Monitor
    monPanic,   \* whether dropping the Monitor panicked
    raw,        \* the xwii_event handed to Event::parse (EventStream.last_event)
    parsed,     \* what Event::parse made of `raw`: an Event, or a panic
    prevRaw,    \* the record decoded before `raw`
    prevParsed, \* what Event::parse made of prevRaw
    lazy,       \* state of the cell of the static REACTOR (once_cell Lazy)
    reactor,    \* the Reactor stored in REACTOR: its ep_fd (0: none)
    getPc,      \* position of each thread inside Reactor::get
    getCalls,   \* calls of Reactor::get each thread has made
    got,        \* the Reactor each thread's last Reactor::get returned
    epFds,      \* descriptors created by epoll_create1 in this process
    loops,      \* the event-loop threads spawned: position and Reactor
    lock,       \* the thread that holds the Mutex of Reactor.wakers
    es2State,   \* whether a second EventStream of the same Device exists
    es2Last,    \* the last completed operation on the second stream
    es2News,    \* calls of Device::events made while a stream exists
    core_open,  \* Device.core_open
    ifaces,     \* the channels the library holds open (xwii_iface_opened)
    coreWr,     \* whether the library holds the core channel open for writing
    coreBy,     \* the last successful call that opened or closed the core channel
    devLast,    \* the last completed call of open, close or set_rumble
    rumbles,    \* calls of xwii_iface_rumble made
    metric,     \* LightsDisplay.metric
    lights,     \* the last LightsDisplay::update: level, last_ix, the lit LEDs
    tv,         \* raw.time of the record in last_event (tv_sec, tv_usec)
    time        \* the SystemTime Event::parse computed from tv

reactorVars == <<epoll, ready, wakers, woken, bgPc, term, bgEvents, bgInvoked>>
clientVars == <<nextWaker, rcPc, rcArg, rcLast, rcHeld>>
streamVars ==
    <<devQueue, esState, have_interest, esPc, esLast, esGone, esFailed,
      esRemoves, esPanic>>
monitorVars ==
    <<monState, monDiscover, mon_fd, enumerated, monEnum, monHot, monPc, monOut,
      monInit, monPlugged, monRemoves, monPanic>>
decodeVars == <<raw, parsed, prevRaw, prevParsed>>
getVars == <<lazy, reactor, getPc, getCalls, got, epFds, loops>>
lockVars == <<lock>>
dupVars == <<es2State, es2Last, es2News>>
chanVars == <<core_open, ifaces, coreWr, coreBy, devLast, rumbles>>
appVars == <<metric, lights, tv, time>>
deviceVars == <<dupVars, chanVars, appVars>>

\* ------------------------------------------------------------------ bounds

\* How many continuations the direct client registers in one behaviour.
MaxCallbacks == 2
\* How many raw events the device holds unread.
MaxQueue == 2
\* How many devices are connected when a Monitor is created.
MaxEnum == 2
\* How many devices are hot-plugged during the life of a Monitor.
MaxHot == 1
\* How many polls of a Monitor are recorded.
MaxPolls == 4

\* ------------------------------------------------------------- descriptors

PipeFd == "pipe"    \* the descriptor of the Reactor's direct client
DevFd == "dev"      \* xwii_iface_get_fd(device.handle)
MonFd == "mon"      \* xwii_monitor_get_fd(handle, false)
Fds == {PipeFd, DevFd, MonFd}

EventBits == {"IN", "PRI", "HUP"}
Masks == (SUBSET EventBits) \ {{}}

\* struct Interest { fd, events }
Interest(fd, events) == [fd |-> fd, events |-> events]

\* The interests the direct client works with on its descriptor.
ClientMasks == {{"IN"}, {"IN", "HUP"}, {"IN", "PRI", "HUP"}}
ClientInterests == {Interest(PipeFd, m) : m \in ClientMasks}

\* The interests of a client that watches two descriptors for input.
PassFds == {PipeFd, DevFd}
PassInterests == {Interest(fd, {"IN"}) : fd \in PassFds}

\* impl From<&Interest> for epoll_event
ToEpollEvent(interest) ==
    [events |-> interest.events \cup {"ET"}, u64 |-> interest.fd]

\* impl From<&epoll_event> for Interest
FromEpollEvent(event) == [fd |-> event.u64, events |-> event.events]

\* -------------------------------------------------------- function helpers

Put(f, k, v) == [x \in (DOMAIN f) \cup {k} |-> IF x = k THEN v ELSE f[x]]
Drop(f, k) == [x \in (DOMAIN f) \ {k} |-> f[x]]
Empty == [x \in {} |-> x]

\* The wakers: those the direct client hands to set_callback, and the wakers
\* of the tasks that consume the device's EventStream and the Monitor.
EsWaker == MaxCallbacks + 1
MonWaker == MaxCallbacks + 2
Wakers == 1..MonWaker

\* waker.wake()
Wake(wk, w) == [wk EXCEPT ![w] = @ + 1]

\* ---------------------------------------------------------- kernel (epoll)

\* epoll_ctl(ep_fd, EPOLL_CTL_ADD, fd, &event) succeeds unless fd is already
\* in the interest list (EEXIST).
CtlAddOk(interest) == interest.fd \notin DOMAIN epoll

\* epoll_ctl(ep_fd, EPOLL_CTL_DEL, fd, &event) succeeds iff fd is in the
\* interest list (ENOENT otherwise); the event argument is ignored.
CtlDelOk(interest) == interest.fd \in DOMAIN epoll

\* The ready list without the entries of descriptor fd.
RECURSIVE Without(_, _)
Without(evs, fd) ==
    IF evs = <<>> THEN <<>>
    ELSE IF Head(evs).u64 = fd THEN Without(Tail(evs), fd)
         ELSE <<Head(evs)>> \o Without(Tail(evs), fd)

\* The interest a descriptor is registered for, read back from the kernel's
\* interest list.
RegisteredInterest(fd) == Interest(fd, epoll[fd].events \ {"ET"})

\* The waker stored for the interest fd is registered for (0: none).
StoredFor(fd) ==
    IF RegisteredInterest(fd) \in DOMAIN wakers
    THEN wakers[RegisteredInterest(fd)] ELSE 0

\* The waker stored under an interest (0: none).
WakerOf(interest) ==
    IF interest \in DOMAIN wakers THEN wakers[interest] ELSE 0

\* The kernel queues a readiness report for a descriptor registered with
\* user data `data`, with the conditions rev; a descriptor is on the ready
\* list once and its conditions accumulate.  `heard` is not part of
\* epoll_event: it records the waker that was stored for the descriptor's
\* interest when the condition occurred, so that properties can tell a
\* report that follows a set_callback from one that precedes it.
RECURSIVE Post(_, _, _, _)
Post(evs, rev, data, w) ==
    IF evs = <<>> THEN <<[events |-> rev, u64 |-> data, heard |-> w]>>
    ELSE IF Head(evs).u64 = data
         THEN <<[events |-> Head(evs).events \cup rev, u64 |-> data,
                 heard |-> IF w # 0 THEN w ELSE Head(evs).heard]>> \o Tail(evs)
         ELSE <<Head(evs)>> \o Post(Tail(evs), rev, data, w)

\* ------------------------------------------------------ Reactor::wake_ready

\* A wake pass that looks the waker up and leaves it in the registry.
RECURSIVE WakePassKeep(_, _, _, _)
WakePassKeep(evs, ws, wk, inv) ==
    IF evs = <<>> THEN [wakers |-> ws, woken |-> wk, invoked |-> inv]
    ELSE LET interest == FromEpollEvent(Head(evs)) IN
         IF interest \in DOMAIN ws
         THEN WakePassKeep(Tail(evs), ws, Wake(wk, ws[interest]),
                           Append(inv, ws[interest]))
         ELSE WakePassKeep(Tail(evs), ws, wk, inv)

\* A wake pass that empties the registry: every stored waker is removed and
\* invoked, reported or not.
WakePassDrain(evs, ws, wk, inv) ==
    LET reported == {FromEpollEvent(evs[k]) : k \in 1..Len(evs)} \cap DOMAIN ws
        RECURSIVE WakeAll(_, _)
        WakeAll(is, w) ==
            IF is = {} THEN w
            ELSE LET i == CHOOSE x \in is : TRUE IN
                 WakeAll(is \ {i}, Wake(w, ws[i]))
    IN IF reported = {} THEN [wakers |-> ws, woken |-> wk, invoked |-> inv]
       ELSE [wakers |-> Empty, woken |-> WakeAll(DOMAIN ws, wk),
             invoked |-> inv \o [k \in 1..1 |->
                                   ws[CHOOSE i \in reported : TRUE]]]

\* A wake pass that walks the polled events from the last to the first.
RECURSIVE WakePassBackwards(_, _, _, _)
WakePassBackwards(evs, ws, wk, inv) ==
    IF evs = <<>> THEN [wakers |-> ws, woken |-> wk, invoked |-> inv]
    ELSE LET interest == FromEpollEvent(evs[Len(evs)])
             rest == SubSeq(evs, 1, Len(evs) - 1) IN
         IF interest \in DOMAIN ws
         THEN WakePassBackwards(rest, Drop(ws, interest),
                                Wake(wk, ws[interest]),
                                Append(inv, ws[interest]))
         ELSE WakePassBackwards(rest, ws, wk, inv)

\* The loop of wake_ready over the polled events, under the wakers lock:
\* each event is turned into an Interest; a waker stored under exactly that
\* Interest is removed and invoked.
RECURSIVE WakePass(_, _, _, _)
WakePass(evs, ws, wk, inv) ==
    IF evs = <<>> THEN [wakers |-> ws, woken |-> wk, invoked |-> inv]
    ELSE LET interest == FromEpollEvent(Head(evs)) IN
         IF interest \in DOMAIN ws
         THEN WakePass(Tail(evs), Drop(ws, interest), Wake(wk, ws[interest]),
                       Append(inv, ws[interest]))
         ELSE WakePass(Tail(evs), ws, wk, inv)

\* epoll_wait returns: the ready list is moved into the events buffer.
BgWait ==
    /\ bgPc = "wait"
    /\ ready # <<>>
    /\ bgEvents' = ready
    /\ ready' = <<>>
    /\ bgPc' = "notify"
    /\ UNCHANGED <<epoll, wakers, woken, term, bgInvoked>>
    /\ UNCHANGED <<clientVars, streamVars, monitorVars, decodeVars, getVars, lockVars, deviceVars>>

\* The wakers of the polled events are removed and invoked.  The buffer is
\* cleared here rather than at the start of the next wake_ready: nothing
\* reads it in between.  Reactor::run then tests `term`: it calls
\* wake_ready again, or leaves the loop and returns Ok(()).
BgWake ==
    /\ bgPc = "notify"
    /\ LET r == WakePass(bgEvents, wakers, woken, <<>>) IN
        /\ wakers' = r.wakers
        /\ woken' = r.woken
        /\ bgInvoked' = r.invoked
    /\ bgEvents' = <<>>
    /\ bgPc' = IF term THEN "returned" ELSE "wait"
    /\ UNCHANGED <<epoll, ready, term>>
    /\ UNCHANGED <<clientVars, streamVars, monitorVars, decodeVars, getVars, lockVars, deviceVars>>

\* epoll_wait returns -1 with no termination signal involved (EINTR after
\* another signal's handler or a stop and SIGCONT, or another error):
\* bail_if! returns the error, the `?` of Reactor::run returns it, and the
\* .expect("event loop failed") of the loop's thread panics.
BgWaitFails ==
    /\ bgPc = "wait"
    /\ bgPc' = "failed"
    /\ UNCHANGED <<epoll, ready, wakers, woken, term, bgEvents, bgInvoked>>
    /\ UNCHANGED <<clientVars, streamVars, monitorVars, decodeVars, getVars, lockVars, deviceVars>>

\* The process receives SIGTERM and the kernel runs the handler registered
\* by signal_hook::flag::register on one of its threads; the handler sets
\* `term`.  On the loop's thread it interrupts an epoll_wait the thread is
\* blocked in (EINTR: run returns the error); when the thread has tested
\* `term` and not yet entered epoll_wait, the wait starts after the handler.
SigTerm(thread, inEpollWait) ==
    /\ ~term
    /\ term' = TRUE
    /\ bgPc' = IF thread = "loop" /\ bgPc = "wait" /\ inEpollWait
               THEN "failed" ELSE bgPc
    /\ UNCHANGED <<epoll, ready, wakers, woken, bgEvents, bgInvoked>>
    /\ UNCHANGED <<clientVars, streamVars, monitorVars, decodeVars, getVars, lockVars, deviceVars>>

\* ------------------------------------------------------ kernel environment

\* Conditions rev, among those the descriptor is registered for, occur on
\* the direct client's descriptor (data is written to the pipe, its peer
\* hangs up, ...).
ClientReadiness(rev) ==
    /\ PipeFd \in DOMAIN epoll
    /\ rev \subseteq epoll[PipeFd].events \ {"ET"}
    /\ ready' = Post(ready, rev, epoll[PipeFd].u64, StoredFor(PipeFd))
    /\ UNCHANGED <<epoll, wakers, woken, bgPc, term, bgEvents, bgInvoked>>
    /\ UNCHANGED <<clientVars, streamVars, monitorVars, decodeVars, getVars, lockVars, deviceVars>>

\* A registered descriptor becomes ready with the conditions rev: the kernel
\* puts it on the ready list behind the descriptors that became ready
\* before it.
FdReadiness(fd, rev) ==
    /\ fd \in DOMAIN epoll
    /\ rev \subseteq epoll[fd].events \ {"ET"}
    /\ ready' = Post(ready, rev, epoll[fd].u64, StoredFor(fd))
    /\ UNCHANGED <<epoll, wakers, woken, bgPc, term, bgEvents, bgInvoked>>
    /\ UNCHANGED <<clientVars, streamVars, monitorVars, decodeVars, getVars>>
    /\ UNCHANGED <<lockVars, deviceVars>>

\* ------------------------------------------- the Reactor's direct client

\* A completed call: its result, and the waker it invoked (0: none).  `seq`
\* alternates from call to call, so that a call repeated with the same
\* outcome is a visible step.
Called(op, interest, res, woke) ==
    [op |-> op, interest |-> interest, res |-> res, woke |-> woke,
     seq |-> 1 - rcLast.seq]
NoCall == [op |-> "none", seq |-> 0]
Was(rec, op, interest, res) ==
    rec.op = op /\ rec.interest = interest /\ rec.res = res

\* add_interest with the result code of epoll_ctl dropped.
RcAddInterestNoBail(interest) ==
    /\ rcPc = "idle"
    /\ epoll' = IF CtlAddOk(interest)
                THEN Put(epoll, interest.fd, ToEpollEvent(interest))
                ELSE epoll
    /\ rcLast' = Called("add", interest, "ok", 0)
    /\ UNCHANGED <<ready, wakers, woken, bgPc, term, bgEvents, bgInvoked>>
    /\ UNCHANGED <<nextWaker, rcPc, rcArg, rcHeld>>
    /\ UNCHANGED <<streamVars, monitorVars, decodeVars, getVars, lockVars, deviceVars>>

\* Reactor::add_interest
RcAddInterest(interest) ==
    /\ rcPc = "idle"
    /\ IF CtlAddOk(interest)
       THEN /\ epoll' = Put(epoll, interest.fd, ToEpollEvent(interest))
            /\ rcLast' = Called("add", interest, "ok", 0)
       ELSE /\ epoll' = epoll
            /\ rcLast' = Called("add", interest, "err", 0)
    /\ UNCHANGED <<ready, wakers, woken, bgPc, term, bgEvents, bgInvoked>>
    /\ UNCHANGED <<nextWaker, rcPc, rcArg, rcHeld>>
    /\ UNCHANGED <<streamVars, monitorVars, decodeVars, getVars, lockVars, deviceVars>>

\* A set_callback that keeps the waker already stored under the interest.
RcSetCallbackKeepFirst(interest) ==
    /\ rcPc = "idle"
    /\ nextWaker <= MaxCallbacks
    /\ wakers' = IF interest \in DOMAIN wakers THEN wakers
                 ELSE Put(wakers, interest, nextWaker)
    /\ nextWaker' = nextWaker + 1
    /\ rcLast' = Called("set_callback", interest, "ok", 0)
    /\ UNCHANGED <<epoll, ready, woken, bgPc, term, bgEvents, bgInvoked>>
    /\ UNCHANGED <<rcPc, rcArg, rcHeld, streamVars, monitorVars, decodeVars, getVars, lockVars, deviceVars>>

\* Reactor::set_callback
RcSetCallback(interest) ==
    /\ rcPc = "idle"
    /\ nextWaker <= MaxCallbacks
    /\ wakers' = Put(wakers, interest, nextWaker)
    /\ nextWaker' = nextWaker + 1
    /\ rcLast' = Called("set_callback", interest, "ok", 0)
    /\ UNCHANGED <<epoll, ready, woken, bgPc, term, bgEvents, bgInvoked>>
    /\ UNCHANGED <<rcPc, rcArg, rcHeld, streamVars, monitorVars, decodeVars, getVars, lockVars, deviceVars>>

\* A remove_interest that goes on to the registry whatever epoll_ctl
\* returned.
RcRemoveIgnoresErr(interest) ==
    /\ rcPc = "idle"
    /\ IF CtlDelOk(interest)
       THEN /\ epoll' = Drop(epoll, interest.fd)
            /\ ready' = Without(ready, interest.fd)
       ELSE UNCHANGED <<epoll, ready>>
    /\ rcPc' = "remove"
    /\ rcArg' = interest
    /\ rcHeld' = WakerOf(interest)
    /\ rcLast' = rcLast
    /\ UNCHANGED <<wakers, woken, bgPc, term, bgEvents, bgInvoked, nextWaker>>
    /\ UNCHANGED <<streamVars, monitorVars, decodeVars, getVars, lockVars, deviceVars>>

\* Reactor::remove_interest, first statement: ctl_interest(EPOLL_CTL_DEL)?
RcRemoveInterest(interest) ==
    /\ rcPc = "idle"
    /\ IF CtlDelOk(interest)
       THEN /\ epoll' = Drop(epoll, interest.fd)
            /\ ready' = Without(ready, interest.fd)
            /\ rcPc' = "remove"
            /\ rcArg' = interest
            /\ rcHeld' = WakerOf(interest)
            /\ rcLast' = rcLast
       ELSE /\ rcLast' = Called("remove", interest, "err", 0)
            /\ UNCHANGED <<epoll, ready, rcPc, rcArg, rcHeld>>
    /\ UNCHANGED <<wakers, woken, bgPc, term, bgEvents, bgInvoked, nextWaker>>
    /\ UNCHANGED <<streamVars, monitorVars, decodeVars, getVars, lockVars, deviceVars>>

\* remove_interest dropping the stored waker without invoking it.
RcRemoveNoWake ==
    /\ rcPc = "remove"
    /\ wakers' = Drop(wakers, rcArg)
    /\ rcLast' = Called("remove", rcArg, "ok", 0)
    /\ rcPc' = "idle"
    /\ UNCHANGED <<epoll, ready, woken, bgPc, term, bgEvents, bgInvoked, nextWaker, rcArg, rcHeld>>
    /\ UNCHANGED <<streamVars, monitorVars, decodeVars, getVars, lockVars, deviceVars>>

\* A remove_interest that invokes the waker it found stored when it was
\* called, whatever the registry holds by then.
RcRemoveWakeStale ==
    /\ rcPc = "remove"
    /\ wakers' = Drop(wakers, rcArg)
    /\ woken' = IF rcHeld # 0 THEN Wake(woken, rcHeld) ELSE woken
    /\ rcLast' = Called("remove", rcArg, "ok", rcHeld)
    /\ rcPc' = "idle"
    /\ UNCHANGED <<epoll, ready, bgPc, term, bgEvents, bgInvoked, nextWaker, rcArg, rcHeld>>
    /\ UNCHANGED <<streamVars, monitorVars, decodeVars, getVars, lockVars, deviceVars>>

\* Reactor::remove_interest, second statement: the waker stored under the
\* interest is removed and invoked.
RcRemoveWake ==
    /\ rcPc = "remove"
    /\ IF rcArg \in DOMAIN wakers
       THEN /\ wakers' = Drop(wakers, rcArg)
            /\ woken' = Wake(woken, wakers[rcArg])
            /\ rcLast' = Called("remove", rcArg, "ok", wakers[rcArg])
       ELSE /\ UNCHANGED <<wakers, woken>>
            /\ rcLast' = Called("remove", rcArg, "ok", 0)
    /\ rcPc' = "idle"
    /\ UNCHANGED <<epoll, ready, bgPc, term, bgEvents, bgInvoked, nextWaker, rcArg, rcHeld>>
    /\ UNCHANGED <<streamVars, monitorVars, decodeVars, getVars, lockVars, deviceVars>>

\* ------------------------------------------------- the device's events

\* xwii_event.type_ of the raw events, as far as poll_next tells them apart.
RawTypes == {"KEY", "GONE"}

\* A raw event arrives at the device: its descriptor becomes readable, and
\* the kernel queues a report (edge-triggered: one per arrival) if the
\* descriptor is registered.
DeviceEvent(type, rev) ==
    /\ Len(devQueue) < MaxQueue
    /\ devQueue' = Append(devQueue, type)
    /\ IF DevFd \in DOMAIN epoll
       THEN /\ "IN" \in rev
            /\ rev \subseteq epoll[DevFd].events
            /\ ready' = Post(ready, rev, epoll[DevFd].u64, StoredFor(DevFd))
       ELSE ready' = ready
    /\ UNCHANGED <<epoll, wakers, woken, bgPc, term, bgEvents, bgInvoked>>
    /\ UNCHANGED <<esState, have_interest, esPc, esLast, esGone, esFailed,
                   esRemoves, esPanic>>
    /\ UNCHANGED <<clientVars, monitorVars, decodeVars, getVars, lockVars, deviceVars>>

\* ------------------------------------------------------------ EventStream

\* EventStream::EPOLL_EVENTS
EPOLL_EVENTS == {"IN", "HUP", "PRI"}

\* Interest::new(xwii_iface_get_fd(device.handle), Self::EPOLL_EVENTS)
EsInterest == Interest(DevFd, EPOLL_EVENTS)

\* A completed stream operation: its result, and the waker it invoked.
Did(op, res, woke) == [op |-> op, res |-> res, woke |-> woke]

\* EventStream::new.  The kernel queues a report at once, with conditions
\* rev, when the descriptor it adds is already readable.
ESNew(rev) ==
    /\ esState = "none"
    /\ ~esPanic
    /\ IF CtlAddOk(EsInterest)
       THEN /\ epoll' = Put(epoll, DevFd, ToEpollEvent(EsInterest))
            /\ IF devQueue # <<>>
               THEN /\ "IN" \in rev
                    /\ ready' = Post(ready, rev, DevFd, 0)
               ELSE ready' = ready
            /\ esState' = "active"
            /\ have_interest' = TRUE
            /\ esLast' = Did("new", "ok", 0)
       ELSE /\ UNCHANGED <<epoll, ready, esState, have_interest>>
            /\ esLast' = Did("new", "err", 0)
    /\ esGone' = "no"
    /\ esFailed' = FALSE
    /\ esRemoves' = 0
    /\ UNCHANGED <<wakers, woken, bgPc, term, bgEvents, bgInvoked>>
    /\ UNCHANGED <<devQueue, esPc, esPanic>>
    /\ UNCHANGED <<clientVars, monitorVars, decodeVars, getVars, lockVars, deviceVars>>

\* A remove_interest that clears the flag only once the Reactor has removed
\* the interest.
FlagKeptOnFailure(removed) == ~removed

\* EventStream::remove_interest clears have_interest before it calls the
\* Reactor, whether or not the removal then succeeds.
FlagAfterRemove(removed) == FALSE

\* poll_next up to the result of xwii_iface_dispatch.  res is what the
\* dispatch returns: 0 with the next raw event, -EAGAIN when the device
\* holds none, or another error.  ctlFails: the epoll_ctl of a removal
\* fails for a reason of the kernel's (ENOMEM, EBADF, ...).
ESPollStep(res, ctlFails) ==
    /\ esState = "active"
    /\ esPc = "idle"
    /\ esFailed' = (esFailed \/ (have_interest /\ res = "error"))
    /\ esGone' = IF /\ have_interest
                    /\ res = "event"
                    /\ devQueue # <<>>
                    /\ Head(devQueue) = "GONE"
                 THEN "seen"
                 ELSE IF esGone = "no" THEN "no" ELSE "polled"
    /\ IF ~have_interest
       THEN /\ res = "none"
            /\ esLast' = Did("poll", "None", 0)
            /\ UNCHANGED <<epoll, ready, devQueue, have_interest, esPc, esRemoves>>
       ELSE CASE res = "event" ->
                 /\ devQueue # <<>>
                 /\ devQueue' = Tail(devQueue)
                 /\ IF Head(devQueue) = "GONE"
                    THEN \* self.remove_interest(): the flag, then EPOLL_CTL_DEL
                         /\ have_interest' =
                                FlagAfterRemove(CtlDelOk(EsInterest) /\ ~ctlFails)
                         /\ esRemoves' = esRemoves + 1
                         /\ IF CtlDelOk(EsInterest) /\ ~ctlFails
                            THEN /\ epoll' = Drop(epoll, DevFd)
                                 /\ ready' = Without(ready, DevFd)
                                 /\ esPc' = "gone_wake"
                                 /\ esLast' = esLast
                            ELSE /\ esLast' = Did("poll", "Err", 0)
                                 /\ UNCHANGED <<epoll, ready, esPc>>
                    ELSE /\ esLast' = Did("poll", Head(devQueue), 0)
                         /\ UNCHANGED <<epoll, ready, have_interest, esPc, esRemoves>>
              [] res = "EAGAIN" ->
                 /\ devQueue = <<>>
                 /\ esPc' = "pending"
                 /\ UNCHANGED <<epoll, ready, devQueue, have_interest, esLast, esRemoves>>
              [] res = "error" ->
                 /\ esLast' = Did("poll", "Err", 0)
                 /\ UNCHANGED <<epoll, ready, devQueue, have_interest, esPc, esRemoves>>
              [] OTHER -> FALSE
    /\ UNCHANGED <<wakers, woken, bgPc, term, bgEvents, bgInvoked>>
    /\ UNCHANGED <<esState, esPanic>>
    /\ UNCHANGED <<clientVars, monitorVars, getVars, lockVars, deviceVars>>

\* poll_next as far as the stream and the Reactor are concerned: what
\* Event::parse makes of the record is left out.
ESPollCtl(res, ctlFails) ==
    /\ ESPollStep(res, ctlFails)
    /\ UNCHANGED decodeVars

\* poll_next with a kernel that only refuses a removal for a descriptor it
\* does not hold.
ESPoll(res) == ESPollCtl(res, FALSE)

\* A poll that returns Pending without storing the caller's waker.
ESPollPendingNoStore ==
    /\ esPc = "pending"
    /\ esPc' = "idle"
    /\ esLast' = Did("poll", "Pending", 0)
    /\ UNCHANGED reactorVars
    /\ UNCHANGED <<devQueue, esState, have_interest, esGone, esFailed,
                   esRemoves, esPanic>>
    /\ UNCHANGED <<clientVars, monitorVars, decodeVars, getVars, lockVars, deviceVars>>

\* poll_next after -EAGAIN: Reactor::get().set_callback(interest, waker);
\* return Poll::Pending.
ESPollPending ==
    /\ esPc = "pending"
    /\ wakers' = Put(wakers, EsInterest, EsWaker)
    /\ woken' = [woken EXCEPT ![EsWaker] = 0]
    /\ esPc' = "idle"
    /\ esLast' = Did("poll", "Pending", 0)
    /\ UNCHANGED <<epoll, ready, bgPc, term, bgEvents, bgInvoked>>
    /\ UNCHANGED <<devQueue, esState, have_interest, esGone, esFailed,
                   esRemoves, esPanic>>
    /\ UNCHANGED <<clientVars, monitorVars, decodeVars, getVars, lockVars, deviceVars>>

\* A removal that deregisters the descriptor and leaves the registry alone.
ESRemoveLeavesWaker ==
    /\ esPc \in {"gone_wake", "drop_wake"}
    /\ esLast' = Did(IF esPc = "gone_wake" THEN "poll" ELSE "drop",
                     IF esPc = "gone_wake" THEN "None" ELSE "ok", 0)
    /\ esState' = IF esPc = "gone_wake" THEN esState ELSE "none"
    /\ esPc' = "idle"
    /\ UNCHANGED <<epoll, ready, wakers, woken, bgPc, term, bgEvents, bgInvoked>>
    /\ UNCHANGED <<devQueue, have_interest, esGone, esFailed, esRemoves, esPanic>>
    /\ UNCHANGED <<clientVars, monitorVars, decodeVars, getVars, lockVars, deviceVars>>

\* The rest of Reactor::remove_interest for the stream: the waker stored
\* under the stream's interest is removed and invoked.  In poll_next the
\* result is Ready(None); in drop the stream is gone.
ESRemoveWake ==
    /\ esPc \in {"gone_wake", "drop_wake"}
    /\ IF EsInterest \in DOMAIN wakers
       THEN /\ wakers' = Drop(wakers, EsInterest)
            /\ woken' = Wake(woken, wakers[EsInterest])
       ELSE UNCHANGED <<wakers, woken>>
    /\ esLast' = Did(IF esPc = "gone_wake" THEN "poll" ELSE "drop",
                     IF esPc = "gone_wake" THEN "None" ELSE "ok",
                     WakerOf(EsInterest))
    /\ esState' = IF esPc = "gone_wake" THEN esState ELSE "none"
    /\ esPc' = "idle"
    /\ UNCHANGED <<epoll, ready, bgPc, term, bgEvents, bgInvoked>>
    /\ UNCHANGED <<devQueue, have_interest, esGone, esFailed, esRemoves, esPanic>>
    /\ UNCHANGED <<clientVars, monitorVars, decodeVars, getVars, lockVars, deviceVars>>

\* A drop that does not consult have_interest before removing the interest.
ESDropNoFlag ==
    /\ esState = "active"
    /\ esPc = "idle"
    /\ have_interest' = FALSE
    /\ esRemoves' = esRemoves + 1
    /\ IF CtlDelOk(EsInterest)
       THEN /\ epoll' = Drop(epoll, DevFd)
            /\ ready' = Without(ready, DevFd)
            /\ esPc' = "drop_wake"
            /\ UNCHANGED <<esState, esLast, esPanic>>
       ELSE /\ esPanic' = TRUE
            /\ esState' = "none"
            /\ esLast' = Did("drop", "panic", 0)
            /\ UNCHANGED <<epoll, ready, esPc>>
    /\ UNCHANGED <<wakers, woken, bgPc, term, bgEvents, bgInvoked>>
    /\ UNCHANGED <<devQueue, esGone, esFailed>>
    /\ UNCHANGED <<clientVars, monitorVars, decodeVars, getVars, lockVars, deviceVars>>

\* A drop that ignores the result of remove_interest.
ESDropSwallows(ctlFails) ==
    /\ esState = "active"
    /\ esPc = "idle"
    /\ IF have_interest
       THEN /\ have_interest' = FALSE
            /\ esRemoves' = esRemoves + 1
            /\ IF CtlDelOk(EsInterest) /\ ~ctlFails
               THEN /\ epoll' = Drop(epoll, DevFd)
                    /\ ready' = Without(ready, DevFd)
                    /\ esPc' = "drop_wake"
                    /\ UNCHANGED <<esState, esLast, esPanic>>
               ELSE /\ esState' = "none"
                    /\ esLast' = Did("drop", "ok", 0)
                    /\ UNCHANGED <<epoll, ready, esPc, esPanic>>
       ELSE /\ esState' = "none"
            /\ esLast' = Did("drop", "ok", 0)
            /\ UNCHANGED <<epoll, ready, have_interest, esPc, esRemoves, esPanic>>
    /\ UNCHANGED <<wakers, woken, bgPc, term, bgEvents, bgInvoked>>
    /\ UNCHANGED <<devQueue, esGone, esFailed>>
    /\ UNCHANGED <<clientVars, monitorVars, decodeVars, getVars, lockVars, deviceVars>>

\* Drop for EventStream: self.remove_interest().expect(..)
ESDropCtl(ctlFails) ==
    /\ esState = "active"
    /\ esPc = "idle"
    /\ IF have_interest
       THEN /\ have_interest' =
                   FlagAfterRemove(CtlDelOk(EsInterest) /\ ~ctlFails)
            /\ esRemoves' = esRemoves + 1
            /\ IF CtlDelOk(EsInterest) /\ ~ctlFails
               THEN /\ epoll' = Drop(epoll, DevFd)
                    /\ ready' = Without(ready, DevFd)
                    /\ esPc' = "drop_wake"
                    /\ UNCHANGED <<esState, esLast, esPanic>>
               ELSE /\ esPanic' = TRUE
                    /\ esState' = "none"
                    /\ esLast' = Did("drop", "panic", 0)
                    /\ UNCHANGED <<epoll, ready, esPc>>
       ELSE /\ esState' = "none"
            /\ esLast' = Did("drop", "ok", 0)
            /\ UNCHANGED <<epoll, ready, have_interest, esPc, esRemoves, esPanic>>
    /\ UNCHANGED <<wakers, woken, bgPc, term, bgEvents, bgInvoked>>
    /\ UNCHANGED <<devQueue, esGone, esFailed>>
    /\ UNCHANGED <<clientVars, monitorVars, decodeVars, getVars, lockVars, deviceVars>>

\* Drop with a kernel that only refuses a removal for a descriptor it does
\* not hold.
ESDrop == ESDropCtl(FALSE)

\* ------------------------------------- a second EventStream of the Device

\* How many times Device::events is called while a stream of the device
\* exists.
MaxDup == 2

\* A Device::events that hands out a stream whatever add_interest returned.
ESNewSecondNoBail(rev) ==
    /\ esState = "active"
    /\ es2State = "none"
    /\ es2News < MaxDup
    /\ es2News' = es2News + 1
    /\ epoll' = Put(epoll, DevFd, ToEpollEvent(EsInterest))
    /\ ready' = ready
    /\ "IN" \in rev
    /\ es2State' = "active"
    /\ es2Last' = Did("new", "ok", 0)
    /\ UNCHANGED <<wakers, woken, bgPc, term, bgEvents, bgInvoked>>
    /\ UNCHANGED <<clientVars, streamVars, monitorVars, decodeVars, getVars>>
    /\ UNCHANGED <<lockVars, chanVars, appVars>>

\* Device::events (EventStream::new) on a Device that already has an
\* EventStream: the same descriptor and the same mask are added again.
ESNewSecond(rev) ==
    /\ esState = "active"
    /\ es2State = "none"
    /\ es2News < MaxDup
    /\ es2News' = es2News + 1
    /\ IF CtlAddOk(EsInterest)
       THEN /\ epoll' = Put(epoll, DevFd, ToEpollEvent(EsInterest))
            /\ IF devQueue # <<>>
               THEN /\ "IN" \in rev
                    /\ ready' = Post(ready, rev, DevFd, 0)
               ELSE /\ rev = {"IN"}
                    /\ ready' = ready
            /\ es2State' = "active"
            /\ es2Last' = Did("new", "ok", 0)
       ELSE /\ rev = {"IN"}
            /\ UNCHANGED <<epoll, ready, es2State>>
            /\ es2Last' = Did("new", "err", 0)
    /\ UNCHANGED <<wakers, woken, bgPc, term, bgEvents, bgInvoked>>
    /\ UNCHANGED <<clientVars, streamVars, monitorVars, decodeVars, getVars>>
    /\ UNCHANGED <<lockVars, chanVars, appVars>>

\* Drop for the second EventStream: its have_interest is still true (it was
\* never polled), so Reactor::remove_interest deregisters the descriptor
\* and wakes the waker stored under the interest.
ES2Drop ==
    /\ es2State = "active"
    /\ es2State' = "none"
    /\ IF CtlDelOk(EsInterest)
       THEN /\ epoll' = Drop(epoll, DevFd)
            /\ ready' = Without(ready, DevFd)
            /\ IF EsInterest \in DOMAIN wakers
               THEN /\ wakers' = Drop(wakers, EsInterest)
                    /\ woken' = Wake(woken, wakers[EsInterest])
               ELSE UNCHANGED <<wakers, woken>>
            /\ es2Last' = Did("drop", "ok", WakerOf(EsInterest))
       ELSE /\ UNCHANGED <<epoll, ready, wakers, woken>>
            /\ es2Last' = Did("drop", "panic", 0)
    /\ UNCHANGED <<bgPc, term, bgEvents, bgInvoked, es2News>>
    /\ UNCHANGED <<clientVars, streamVars, monitorVars, decodeVars, getVars>>
    /\ UNCHANGED <<lockVars, chanVars, appVars>>

\* ---------------------------------------------------- Device: the channels

\* How many times xwii_iface_rumble is called.
MaxRumble == 2

\* Channels, as far as Device tells them apart: CORE and another.
CORE == "CORE"
ACCELEROMETER == "ACCELEROMETER"
ChannelSets == (SUBSET {CORE, ACCELEROMETER}) \ {{}}

\* A completed call on the Device; `opened`: whether it called
\* xwii_iface_open; `seq` alternates from call to call.
DevDid(op, res, opened) ==
    [op |-> op, res |-> res, opened |-> opened, seq |-> 1 - devLast.seq]

\* xwii_iface_open(handle, ifaces) and the lines of Device::open after it.
\* A channel that is already open is ignored; of the others the library
\* opens those in `done` and returns 0 iff that is all of them.  The mode of
\* the call applies to the channels it opens.
OpenOutcome(channels, writable, done) ==
    LET todo == channels \ ifaces
        ok == done = todo
    IN [ok |-> ok,
        ifaces |-> ifaces \cup done,
        coreWr |-> IF CORE \in done THEN writable ELSE coreWr,
        coreBy |-> IF CORE \in done /\ ok
                   THEN (IF writable THEN "open_rw" ELSE "open_ro")
                   ELSE coreBy,
        core_open |-> IF ok /\ CORE \in channels /\ writable
                      THEN TRUE ELSE core_open]

\* Device::open
DevOpen(channels, writable, done) ==
    /\ done \subseteq channels \ ifaces
    /\ LET o == OpenOutcome(channels, writable, done) IN
        /\ ifaces' = o.ifaces
        /\ coreWr' = o.coreWr
        /\ coreBy' = o.coreBy
        /\ core_open' = o.core_open
        /\ devLast' = DevDid("open", IF o.ok THEN "ok" ELSE "err", TRUE)
    /\ UNCHANGED <<rumbles, dupVars, appVars>>
    /\ UNCHANGED <<reactorVars, clientVars, streamVars, monitorVars>>
    /\ UNCHANGED <<decodeVars, getVars, lockVars>>

\* Device::close
DevClose(channels) ==
    /\ core_open' = IF CORE \in channels THEN FALSE ELSE core_open
    /\ ifaces' = ifaces \ channels
    /\ coreWr' = IF CORE \in channels THEN FALSE ELSE coreWr
    /\ coreBy' = IF CORE \in channels \cap ifaces THEN "close" ELSE coreBy
    /\ devLast' = DevDid("close", "ok", FALSE)
    /\ UNCHANGED <<rumbles, dupVars, appVars>>
    /\ UNCHANGED <<reactorVars, clientVars, streamVars, monitorVars>>
    /\ UNCHANGED <<decodeVars, getVars, lockVars>>

\* Device::set_rumble: ensure_core_open()?, then xwii_iface_rumble, which
\* fails on a core channel that is not open for writing (or that the kernel
\* has closed: rumbleFails).
DevSetRumble(done, rumbleFails) ==
    /\ rumbles < MaxRumble
    /\ IF core_open
       THEN /\ done = {}
            /\ rumbles' = rumbles + 1
            /\ devLast' = DevDid("set_rumble",
                                 IF rumbleFails \/ ~coreWr THEN "err" ELSE "ok",
                                 FALSE)
            /\ UNCHANGED <<core_open, ifaces, coreWr, coreBy>>
       ELSE /\ done \subseteq {CORE} \ ifaces
            /\ LET o == OpenOutcome({CORE}, TRUE, done) IN
                /\ ifaces' = o.ifaces
                /\ coreWr' = o.coreWr
                /\ coreBy' = o.coreBy
                /\ core_open' = o.core_open
                /\ IF o.ok
                   THEN /\ rumbles' = rumbles + 1
                        /\ devLast' = DevDid("set_rumble",
                                             IF rumbleFails \/ ~o.coreWr
                                             THEN "err" ELSE "ok", TRUE)
                   ELSE /\ ~rumbleFails
                        /\ rumbles' = rumbles
                        /\ devLast' = DevDid("set_rumble", "err_open", TRUE)
    /\ UNCHANGED <<dupVars, appVars>>
    /\ UNCHANGED <<reactorVars, clientVars, streamVars, monitorVars>>
    /\ UNCHANGED <<decodeVars, getVars, lockVars>>

\* ---------------------------------------------------------------- Monitor

Addresses == {"A", "B", "C"}

\* Sequences over S of length at most n.
SeqsUpTo(S, n) == UNION {[1..k -> S] : k \in 0..n}

\* Monitor::HOTPLUG_EVENTS
HOTPLUG_EVENTS == {"IN", "HUP", "PRI"}

\* Interest::new(mon_fd, Self::HOTPLUG_EVENTS)
MonInterest == Interest(MonFd, HOTPLUG_EVENTS)

\* xwii_monitor_poll(handle): the next connected device; once those are
\* exhausted, the next hot-plugged device of a monitor created for
\* discovery; null ("NULL") when there is none.
MonitorPollResult ==
    IF monEnum # <<>> THEN Head(monEnum)
    ELSE IF monDiscover /\ monHot # <<>> THEN Head(monHot)
    ELSE "NULL"

\* A device is hot-plugged: the udev monitor of a Monitor created for
\* discovery receives it, its descriptor becomes readable and the kernel
\* queues a report if the descriptor is registered.
HotPlug(address, rev) ==
    /\ monState = "active"
    /\ monDiscover
    /\ Len(monPlugged) < MaxHot
    /\ monHot' = Append(monHot, address)
    /\ monPlugged' = Append(monPlugged, address)
    /\ IF MonFd \in DOMAIN epoll
       THEN /\ "IN" \in rev
            /\ rev \subseteq epoll[MonFd].events
            /\ ready' = Post(ready, rev, epoll[MonFd].u64, StoredFor(MonFd))
       ELSE ready' = ready
    /\ UNCHANGED <<epoll, wakers, woken, bgPc, term, bgEvents, bgInvoked>>
    /\ UNCHANGED <<monState, monDiscover, mon_fd, enumerated, monEnum, monPc,
                   monOut, monInit, monRemoves, monPanic>>
    /\ UNCHANGED <<clientVars, streamVars, decodeVars, getVars, lockVars, deviceVars>>

\* A Monitor that keeps a descriptor whatever the mode.
MonNewAlwaysFd(discover, connected) ==
    /\ monState = "none"
    /\ ~monPanic
    /\ monState' = "active"
    /\ monDiscover' = discover
    /\ mon_fd' = MonFd
    /\ enumerated' = FALSE
    /\ monEnum' = connected
    /\ monInit' = connected
    /\ monHot' = <<>>
    /\ monPlugged' = <<>>
    /\ monOut' = <<>>
    /\ monRemoves' = 0
    /\ UNCHANGED <<monPc, monPanic>>
    /\ UNCHANGED <<reactorVars, clientVars, streamVars, decodeVars, getVars, lockVars, deviceVars>>

\* Monitor::new(discover) (Monitor::enumerate / Monitor::discover), with the
\* devices `connected` attached to the system.
MonNew(discover, connected) ==
    /\ monState = "none"
    /\ ~monPanic
    /\ monState' = "active"
    /\ monDiscover' = discover
    /\ mon_fd' = IF discover THEN MonFd ELSE "None"
    /\ enumerated' = FALSE
    /\ monEnum' = connected
    /\ monInit' = connected
    /\ monHot' = <<>>
    /\ monPlugged' = <<>>
    /\ monOut' = <<>>
    /\ monRemoves' = 0
    /\ UNCHANGED <<monPc, monPanic>>
    /\ UNCHANGED <<reactorVars, clientVars, streamVars, decodeVars, getVars, lockVars, deviceVars>>

\* What xwii_monitor_poll leaves behind after returning its result.
MonitorPollTaken ==
    /\ monEnum' = IF monEnum # <<>> THEN Tail(monEnum) ELSE monEnum
    /\ monHot' = IF monEnum = <<>> /\ monDiscover /\ monHot # <<>>
                 THEN Tail(monHot) ELSE monHot

\* A poll_next that ends the sequence when no address is available, whatever
\* the mode.
MonPollEnds ==
    /\ monState = "active"
    /\ monPc \in {"idle", "repoll"}
    /\ monPc = "idle" => Len(monOut) < MaxPolls
    /\ IF monPc = "idle" /\ enumerated /\ mon_fd = "None"
       THEN /\ monOut' = Append(monOut, "None")
            /\ UNCHANGED <<enumerated, monEnum, monHot, monPc>>
       ELSE /\ MonitorPollTaken
            /\ IF MonitorPollResult # "NULL"
               THEN /\ monOut' = Append(monOut, MonitorPollResult)
                    /\ monPc' = "idle"
                    /\ UNCHANGED enumerated
               ELSE /\ enumerated' = TRUE
                    /\ monOut' = Append(monOut, "None")
                    /\ monPc' = "idle"
    /\ UNCHANGED <<monState, monDiscover, mon_fd, monInit, monPlugged,
                   monRemoves, monPanic>>
    /\ UNCHANGED <<reactorVars, clientVars, streamVars, decodeVars, getVars, lockVars, deviceVars>>

\* poll_next up to the result of xwii_monitor_poll: at the start of a poll
\* ("idle"), and again after the hot-plug interest has been added
\* ("repoll": the recursive self.poll_next(cx)).
MonPoll ==
    /\ monState = "active"
    /\ monPc \in {"idle", "repoll"}
    /\ monPc = "idle" => Len(monOut) < MaxPolls
    /\ IF enumerated
       THEN IF mon_fd = "None"
            THEN /\ monOut' = Append(monOut, "None")
                 /\ UNCHANGED <<enumerated, monEnum, monHot, monPc>>
            ELSE /\ MonitorPollTaken
                 /\ IF MonitorPollResult = "NULL"
                    THEN /\ monPc' = "pending"
                         /\ UNCHANGED <<enumerated, monOut>>
                    ELSE /\ monOut' = Append(monOut, MonitorPollResult)
                         /\ monPc' = "idle"
                         /\ UNCHANGED enumerated
       ELSE /\ MonitorPollTaken
            /\ IF MonitorPollResult = "NULL"
               THEN /\ enumerated' = TRUE
                    /\ IF mon_fd # "None"
                       THEN /\ monPc' = "add"
                            /\ UNCHANGED monOut
                       ELSE /\ monOut' = Append(monOut, "None")
                            /\ UNCHANGED monPc
               ELSE /\ monOut' = Append(monOut, MonitorPollResult)
                    /\ UNCHANGED <<enumerated, monPc>>
    /\ UNCHANGED <<monState, monDiscover, mon_fd, monInit, monPlugged,
                   monRemoves, monPanic>>
    /\ UNCHANGED <<reactorVars, clientVars, streamVars, decodeVars, getVars, lockVars, deviceVars>>

\* A poll_next that returns Pending as soon as the hot-plug interest is
\* added, without a second xwii_monitor_poll and without storing the waker.
MonAddNoRepoll(rev) ==
    /\ monPc = "add"
    /\ IF CtlAddOk(MonInterest)
       THEN /\ epoll' = Put(epoll, MonFd, ToEpollEvent(MonInterest))
            /\ IF monHot # <<>>
               THEN /\ "IN" \in rev
                    /\ ready' = Post(ready, rev, MonFd, 0)
               ELSE ready' = ready
            /\ monOut' = Append(monOut, "Pending")
       ELSE /\ monOut' = Append(monOut, "Err")
            /\ UNCHANGED <<epoll, ready>>
    /\ monPc' = "idle"
    /\ UNCHANGED <<wakers, woken, bgPc, term, bgEvents, bgInvoked>>
    /\ UNCHANGED <<monState, monDiscover, mon_fd, enumerated, monEnum, monHot,
                   monInit, monPlugged, monRemoves, monPanic>>
    /\ UNCHANGED <<clientVars, streamVars, decodeVars, getVars, lockVars, deviceVars>>

\* poll_next at the end of the enumeration, in discovery mode:
\* Reactor::get().add_interest(&interest)?  The kernel queues a report at
\* once, with conditions rev, when the descriptor is already readable.
\* ctlFails: the epoll_ctl fails for a reason of the kernel's (ENOMEM,
\* ENOSPC, ...); the `?` then returns the error from the poll.
MonAddInterestCtl(rev, ctlFails) ==
    /\ monPc = "add"
    /\ IF CtlAddOk(MonInterest) /\ ~ctlFails
       THEN /\ epoll' = Put(epoll, MonFd, ToEpollEvent(MonInterest))
            /\ IF monHot # <<>>
               THEN /\ "IN" \in rev
                    /\ ready' = Post(ready, rev, MonFd, 0)
               ELSE ready' = ready
            /\ monPc' = "repoll"
            /\ monOut' = monOut
       ELSE /\ monOut' = Append(monOut, "Err")
            /\ monPc' = "idle"
            /\ UNCHANGED <<epoll, ready>>
    /\ UNCHANGED <<wakers, woken, bgPc, term, bgEvents, bgInvoked>>
    /\ UNCHANGED <<monState, monDiscover, mon_fd, enumerated, monEnum, monHot,
                   monInit, monPlugged, monRemoves, monPanic>>
    /\ UNCHANGED <<clientVars, streamVars, decodeVars, getVars, lockVars, deviceVars>>

\* poll_next at the end of the enumeration with a kernel that only refuses
\* to add a descriptor it already holds.
MonAddInterest(rev) == MonAddInterestCtl(rev, FALSE)

\* poll_next when no new device is available:
\* Reactor::get().set_callback(interest, waker); return Poll::Pending.
MonPollPending ==
    /\ monPc = "pending"
    /\ wakers' = Put(wakers, MonInterest, MonWaker)
    /\ woken' = [woken EXCEPT ![MonWaker] = 0]
    /\ monOut' = Append(monOut, "Pending")
    /\ monPc' = "idle"
    /\ UNCHANGED <<epoll, ready, bgPc, term, bgEvents, bgInvoked>>
    /\ UNCHANGED <<monState, monDiscover, mon_fd, enumerated, monEnum, monHot,
                   monInit, monPlugged, monRemoves, monPanic>>
    /\ UNCHANGED <<clientVars, streamVars, decodeVars, getVars, lockVars, deviceVars>>

\* Drop for Monitor, up to the EPOLL_CTL_DEL of Reactor::remove_interest;
\* without a descriptor, xwii_monitor_unref releases the handle at once.
MonDrop ==
    /\ monState = "active"
    /\ monPc = "idle"
    /\ IF mon_fd # "None"
       THEN /\ monRemoves' = monRemoves + 1
            /\ IF CtlDelOk(MonInterest)
               THEN /\ epoll' = Drop(epoll, MonFd)
                    /\ ready' = Without(ready, MonFd)
                    /\ monPc' = "drop_wake"
                    /\ UNCHANGED <<monState, monPanic>>
               ELSE \* .expect("failed to remove interest for monitor fd")
                    /\ monPanic' = TRUE
                    /\ monState' = "none"
                    /\ UNCHANGED <<epoll, ready, monPc>>
       ELSE /\ monState' = "none"
            /\ UNCHANGED <<epoll, ready, monPc, monRemoves, monPanic>>
    /\ UNCHANGED <<wakers, woken, bgPc, term, bgEvents, bgInvoked>>
    /\ UNCHANGED <<monDiscover, mon_fd, enumerated, monEnum, monHot, monOut,
                   monInit, monPlugged>>
    /\ UNCHANGED <<clientVars, streamVars, decodeVars, getVars, lockVars, deviceVars>>

\* The rest of Drop for Monitor: Reactor::remove_interest removes and
\* invokes the stored waker, then xwii_monitor_unref releases the handle.
MonDropWake ==
    /\ monPc = "drop_wake"
    /\ IF MonInterest \in DOMAIN wakers
       THEN /\ wakers' = Drop(wakers, MonInterest)
            /\ woken' = Wake(woken, wakers[MonInterest])
       ELSE UNCHANGED <<wakers, woken>>
    /\ monState' = "none"
    /\ monPc' = "idle"
    /\ UNCHANGED <<epoll, ready, bgPc, term, bgEvents, bgInvoked>>
    /\ UNCHANGED <<monDiscover, mon_fd, enumerated, monEnum, monHot, monOut,
                   monInit, monPlugged, monRemoves, monPanic>>
    /\ UNCHANGED <<clientVars, streamVars, decodeVars, getVars, lockVars, deviceVars>>

\* ------------------------------------------------- wiinote: find_device

\* find_device(discover) is Monitor::discover() or Monitor::enumerate()
\* followed by monitor.try_next().await; the Monitor is a local of the
\* function and is dropped when it returns.

\* The result of the poll that ended try_next ("Pending": none has yet).
FindResult == IF monOut = <<>> THEN "Pending" ELSE monOut[Len(monOut)]

\* try_next().await polls the Monitor: at first, and again each time the
\* task has been woken after a poll that returned Pending.
FindPoll ==
    /\ \/ monOut = <<>>
       \/ FindResult = "Pending" /\ woken[MonWaker] > 0
    /\ MonPoll

\* find_device returns what try_next produced: `monitor` goes out of scope.
FindDrop ==
    /\ FindResult # "Pending"
    /\ MonDrop

\* ----------------------------------------------------------- Event::parse

\* The key codes of the driver (XWII_KEY_*), by the macro that lists them.
BaseKeys == {"PLUS", "MINUS"}
RegularKeys == {"LEFT", "RIGHT", "UP", "DOWN", "A", "B", "HOME"} \cup BaseKeys
GamepadKeys == {"X", "Y", "TL", "TR", "ZL", "ZR"} \cup RegularKeys

\* The discriminants of each key enumeration.
Key == RegularKeys \cup {"ONE", "TWO"}
ProControllerKey == GamepadKeys \cup {"THUMBL", "THUMBR"}
ClassicControllerKey == GamepadKeys
NunchukKey == {"C", "Z"}
DrumsKey == BaseKeys
GuitarKey ==
    BaseKeys \cup {"HOME", "STRUM_BAR_UP", "FRET_FAR_UP", "FRET_UP", "FRET_MID",
                   "FRET_LOW", "FRET_FAR_LOW"}

\* The codes a key record may carry: the driver's, and one that is no key
\* of any controller ("NUM").
RawKeyCodes ==
    Key \cup ProControllerKey \cup NunchukKey \cup GuitarKey
        \cup {"STRUM_BAR_DOWN", "NUM"}

\* The values of xwii_event_key.state a record may carry; 3 is no KeyState.
RawKeyStates == 0..3

\* A from_u32 that reads every non-zero state as Down.
KeyStateLenient(n) == IF n = 0 THEN "Up" ELSE "Down"

\* KeyState::from_u32
KeyStateFromU32(n) ==
    CASE n = 0 -> "Up"
      [] n = 1 -> "Down"
      [] n = 2 -> "AutoRepeat"
      [] OTHER -> "None"

MAX_IR_SOURCES == 4
MISSING_SOURCE == 1023

Slots == 0..(MAX_IR_SOURCES - 1)

\* Option<IrSource>
NoSource == [some |-> FALSE, x |-> 0, y |-> 0]
SomeSource(pos) == [some |-> TRUE, x |-> pos.x, y |-> pos.y]

\* panic!(msg)
Panic(msg) == [kind |-> "panic", msg |-> msg]

\* An IrSource::parse that stores the sources it finds one after another.
IrSourceParsePacked(r) ==
    LET found == {k \in Slots : /\ r.abs[k].x # MISSING_SOURCE
                                /\ r.abs[k].y # MISSING_SOURCE}
        rank(k) == Cardinality({j \in found : j < k})
    IN  [ix \in Slots |->
            IF \E k \in found : rank(k) = ix
            THEN SomeSource(r.abs[CHOOSE k \in found : rank(k) = ix])
            ELSE NoSource]

\* IrSource::parse: `sources` starts as [None; 4]; entry ix becomes the
\* position of slot ix unless either coordinate is MISSING_SOURCE.
IrSourceParse(r) ==
    [ix \in Slots |->
        IF r.abs[ix].x # MISSING_SOURCE /\ r.abs[ix].y # MISSING_SOURCE
        THEN SomeSource(r.abs[ix])
        ELSE NoSource]

\* A parse_key that falls back to a default state.
ParseKeyDefaults(kind, keys, r) ==
    IF r.key.code \notin keys THEN Panic("unknown key code")
    ELSE [kind |-> kind, key |-> r.key.code,
          state |-> IF KeyStateFromU32(r.key.state) = "None"
                    THEN "Up" ELSE KeyStateFromU32(r.key.state)]

\* Event::parse_key::<T>, T the enumeration with the discriminants `keys`,
\* and the Event variant `kind` built from its result.
ParseKey(kind, keys, r) ==
    IF r.key.code \notin keys THEN Panic("unknown key code")
    ELSE IF KeyStateFromU32(r.key.state) = "None" THEN Panic("unknown key state")
    ELSE [kind |-> kind, key |-> r.key.code,
          state |-> KeyStateFromU32(r.key.state)]

\* x as u8
AsU8(x) == x % 256

\* Event::parse, without the time stamp.
EventParse(r) ==
    CASE r.type = "KEY" -> ParseKey("Key", Key, r)
      [] r.type = "ACCEL" ->
            [kind |-> "Accelerometer",
             x |-> r.abs[0].x, y |-> r.abs[0].y, z |-> r.abs[0].z]
      [] r.type = "IR" -> [kind |-> "Ir", sources |-> IrSourceParse(r)]
      [] r.type = "BALANCE_BOARD" ->
            [kind |-> "BalanceBoard",
             weights |-> <<r.abs[0].x, r.abs[1].x, r.abs[2].x, r.abs[3].x>>]
      [] r.type = "MOTION_PLUS" ->
            [kind |-> "MotionPlus",
             x |-> r.abs[0].x, y |-> r.abs[0].y, z |-> r.abs[0].z]
      [] r.type = "PRO_CONTROLLER_KEY" ->
            ParseKey("ProControllerKey", ProControllerKey, r)
      [] r.type = "PRO_CONTROLLER_MOVE" ->
            [kind |-> "ProControllerMove",
             left_x |-> r.abs[0].x, left_y |-> r.abs[0].y,
             right_x |-> r.abs[1].x, right_y |-> r.abs[1].y]
      [] r.type = "WATCH" -> [kind |-> "Other"]
      [] r.type = "CLASSIC_CONTROLLER_KEY" ->
            ParseKey("ClassicControllerKey", ClassicControllerKey, r)
      [] r.type = "CLASSIC_CONTROLLER_MOVE" ->
            [kind |-> "ClassicControllerMove",
             left_x |-> r.abs[0].x, left_y |-> r.abs[0].y,
             right_x |-> r.abs[1].x, right_y |-> r.abs[1].y,
             left_trigger |-> AsU8(r.abs[2].x),
             right_trigger |-> AsU8(r.abs[2].y)]
      [] r.type = "NUNCHUK_KEY" -> ParseKey("NunchukKey", NunchukKey, r)
      [] r.type = "NUNCHUK_MOVE" ->
            [kind |-> "NunchukMove",
             x |-> r.abs[0].x, y |-> r.abs[0].y,
             x_acceleration |-> r.abs[1].x, y_acceleration |-> r.abs[1].y]
      [] r.type = "DRUMS_KEY" -> ParseKey("DrumsKey", DrumsKey, r)
      [] r.type = "DRUMS_MOVE" -> Panic("not yet implemented")
      [] r.type = "GUITAR_KEY" -> ParseKey("GuitarKey", GuitarKey, r)
      [] r.type = "GONE" -> Panic("unexpected removal event")
      [] OTHER -> Panic("unexpected event type")

\* The type tags of the driver (XWII_EVENT_*) whose payload is a key, and
\* those whose payload is an array of positions.
KeyTypes ==
    {"KEY", "PRO_CONTROLLER_KEY", "CLASSIC_CONTROLLER_KEY", "NUNCHUK_KEY",
     "DRUMS_KEY", "GUITAR_KEY"}
AbsTypes ==
    {"ACCEL", "IR", "BALANCE_BOARD", "MOTION_PLUS", "PRO_CONTROLLER_MOVE",
     "CLASSIC_CONTROLLER_MOVE", "NUNCHUK_MOVE", "DRUMS_MOVE", "GUITAR_MOVE"}

\* xwii_event_abs
Pos(x, y, z) == [x |-> x, y |-> y, z |-> z]

\* The positions a record may carry: an ordinary one, the one the driver
\* reports for an IR source it does not see, and, from the IR camera, one
\* on the right edge of its field.
AbsValues(t) ==
    {Pos(300, 6, 7), Pos(1023, 1023, 0)}
        \cup IF t = "IR" THEN {Pos(1023, 6, 0)} ELSE {}

\* The payload fields a record's type does not use.
NoKey == [code |-> "NUM", state |-> 0]
ZeroAbs == [k \in Slots |-> Pos(0, 0, 0)]

\* xwii_event, without the time stamp.  "NUM" is a type tag that is no
\* event kind.  XWII_EVENT_GONE is left to EventStream::poll_next.
Records ==
    {[type |-> t, key |-> [code |-> c, state |-> st], abs |-> ZeroAbs] :
        t \in KeyTypes, c \in RawKeyCodes, st \in RawKeyStates}
    \cup UNION {{[type |-> t, key |-> NoKey, abs |-> a] :
                    a \in [Slots -> AbsValues(t)]} : t \in AbsTypes}
    \cup {[type |-> t, key |-> NoKey, abs |-> ZeroAbs] : t \in {"WATCH", "NUM"}}

NoRecord == [type |-> "NONE", key |-> NoKey, abs |-> ZeroAbs]
NotParsed == [kind |-> "none"]

\* poll_next, arm `0 =>` for a record that is not XWII_EVENT_GONE:
\* Event::parse(&self.last_event).
Parse ==
    /\ raw # NoRecord
    /\ parsed = NotParsed
    /\ parsed' = EventParse(raw)
    /\ UNCHANGED <<raw, prevRaw, prevParsed>>
    /\ UNCHANGED <<reactorVars, clientVars, streamVars, monitorVars>>
    /\ UNCHANGED <<getVars, lockVars, deviceVars>>

\* xwii_iface_dispatch stores the next record in last_event: a record of
\* the same type as the last and, if that is a key, about the same key.
Dispatch(rec) ==
    /\ parsed # NotParsed
    /\ parsed.kind # "panic"
    /\ rec.type = raw.type
    /\ raw.type \in KeyTypes => rec.key.code = raw.key.code
    /\ prevRaw' = raw
    /\ prevParsed' = parsed
    /\ raw' = rec
    /\ parsed' = NotParsed
    /\ UNCHANGED <<reactorVars, clientVars, streamVars, monitorVars>>
    /\ UNCHANGED <<getVars, lockVars, deviceVars>>

\* The records xwii_iface_dispatch stores in last_event for the stream,
\* XWII_EVENT_GONE among them.
GoneRecord == [type |-> "GONE", key |-> NoKey, abs |-> ZeroAbs]
PolledRecords ==
    {r \in Records : r.type = "KEY" /\ r.key.code = "A" /\ r.key.state \in 0..1}
        \cup {GoneRecord}

\* A poll_next that parses whatever record the dispatch has stored.
ParsedAlways(rec) == TRUE

\* poll_next, arm `0 =>`: Event::parse is called in the else branch of
\* `if self.last_event.type_ == XWII_EVENT_GONE`.
ParsedByPoll(rec) == rec.type # "GONE"

\* poll_next with the record the dispatch stores and what is made of it.
ESPollDecode(res, rec) ==
    /\ ESPollStep(res, FALSE)
    /\ IF have_interest /\ res = "event"
       THEN /\ rec.type = Head(devQueue)
            /\ raw' = rec
            /\ parsed' = IF ParsedByPoll(rec) THEN EventParse(rec)
                          ELSE NotParsed
            /\ prevRaw' = raw
            /\ prevParsed' = parsed
       ELSE /\ rec = GoneRecord
            /\ UNCHANGED decodeVars

\* -------------------------------------------- wiinote: LightsDisplay::update

\* let rssi = 0i8; // todo
rssi == 0

\* `level` of update, a u8: the battery level read from the device, or, for
\* the connection, !((rssi as i16 * 100 / -80) as u8).  The dividend is not
\* positive, so the truncating division by -80 is the floor division of its
\* negation by 80; `!` on a u8 is the bitwise complement, 255 - x.
Level(m, battery) ==
    IF m = "Battery" THEN battery
    ELSE 255 - AsU8((0 - (rssi * 100)) \div 80)

\* let last_ix = 1 + level / 30, in u8.
LastIx(lvl) == AsU8(1 + (lvl \div 30))

\* LightsDisplay::update for the metric m.  battery: what
\* xwii_iface_get_battery reports; battFails: Device::battery returns an
\* error; failAt: the call of set_led that fails (0: none), which ends the
\* loop with the lights before it set.
UpdateOutcome(m, battery, battFails, failAt) ==
    IF m = "Battery" /\ battFails
    THEN [lights EXCEPT !.res = "err", !.seq = 1 - @]
    ELSE LET lvl == Level(m, battery)
             done == IF failAt = 0 THEN 1..4 ELSE 1..(failAt - 1)
         IN [res |-> IF failAt = 0 THEN "ok" ELSE "err",
             level |-> lvl,
             last_ix |-> LastIx(lvl),
             lit |-> {ix \in done : ix <= LastIx(lvl)}
                        \cup (lights.lit \ done),
             seq |-> 1 - lights.seq]

\* The interval of the display ticks: update().
DisplayUpdate(battery, battFails, failAt) ==
    /\ metric' = metric
    /\ lights' = UpdateOutcome(metric, battery, battFails, failAt)
    /\ UNCHANGED <<tv, time>>
    /\ UNCHANGED <<dupVars, chanVars>>
    /\ UNCHANGED <<reactorVars, clientVars, streamVars, monitorVars>>
    /\ UNCHANGED <<decodeVars, getVars, lockVars>>

\* LightsDisplay::set_metric
DisplaySetMetric(to, battery, battFails, failAt) ==
    /\ metric' = to
    /\ lights' = UpdateOutcome(to, battery, battFails, failAt)
    /\ UNCHANGED <<tv, time>>
    /\ UNCHANGED <<dupVars, chanVars>>
    /\ UNCHANGED <<reactorVars, clientVars, streamVars, monitorVars>>
    /\ UNCHANGED <<decodeVars, getVars, lockVars>>

\* --------------------------------------------- Event::parse: the time stamp

\* raw.time of the records whose time stamp is computed: seconds since the
\* epoch as the kernel's clock gives them, and microseconds within and
\* beyond the range 0..999999 of a timeval.
TimeVals ==
    [tv_sec : {0, 1, 59, 1700000000, 2147483000},
     tv_usec : {0, 1, 999, 1000, 1001, 499999, 500000, 999998, 999999,
                1000000, 2000000, 4294968}]

\* A time stamp built from the microseconds as if they were nanoseconds.
TimeOfUnscaled(t) ==
    [kind |-> "time", secs |-> t.tv_sec, nanos |-> t.tv_usec]

\* Event::parse, the first two statements:
\*   Duration::new(raw.time.tv_sec as u64, raw.time.tv_usec as u32 * 1000)
\*   SystemTime::UNIX_EPOCH + since_epoch
\* The product is a u32: it overflows when tv_usec exceeds
\* (2^32 - 1) / 1000, computed here digit by digit in base 65536.
\* Duration::new carries whole seconds out of the nanoseconds.  The time is
\* given as seconds and nanoseconds since the epoch.
TimeOf(t) ==
    LET max == (65535 \div 1000) * 65536
                  + (((65535 % 1000) * 65536 + 65535) \div 1000)
    IN IF t.tv_usec > max THEN [kind |-> "overflow", secs |-> 0, nanos |-> 0]
       ELSE LET nanos == t.tv_usec * 1000 IN
            [kind |-> "time",
             secs |-> t.tv_sec + (nanos \div 1000000000),
             nanos |-> nanos % 1000000000]

\* Event::parse computes `time` for the record in last_event.
ParseTime ==
    /\ time.kind = "none"
    /\ time' = TimeOf(tv)
    /\ UNCHANGED <<tv, metric, lights>>
    /\ UNCHANGED <<dupVars, chanVars>>
    /\ UNCHANGED <<reactorVars, clientVars, streamVars, monitorVars>>
    /\ UNCHANGED <<decodeVars, getVars, lockVars>>

\* ------------------------------------------------------------ Reactor::get

\* How many threads of the process call Reactor::get.
MaxThreads == 3
\* How many times each of them calls it.
MaxGets == 2

Threads == 1..MaxThreads

\* An event-loop thread: blocked in the Reactor::get of its closure ("get"),
\* inside run on the Reactor `on` ("run"), or panicked.
LoopThread(pc, on) == [pc |-> pc, on |-> on]

\* A cell initialised by a test of its state followed by a write, with
\* nothing to order two threads that both find it empty.
GetForceRacy(t) ==
    /\ getPc[t] = "out"
    /\ getCalls[t] < MaxGets
    /\ getCalls' = [getCalls EXCEPT ![t] = @ + 1]
    /\ CASE lazy = "complete" ->
               /\ got' = [got EXCEPT ![t] = reactor]
               /\ UNCHANGED <<lazy, getPc>>
         [] lazy \in {"incomplete", "running"} ->
               /\ lazy' = "running"
               /\ getPc' = [getPc EXCEPT ![t] = "spawn"]
               /\ UNCHANGED got
         [] lazy = "poisoned" ->
               /\ getPc' = [getPc EXCEPT ![t] = "panicked"]
               /\ UNCHANGED <<lazy, got>>
    /\ UNCHANGED <<reactor, epFds, loops>>
    /\ UNCHANGED <<reactorVars, clientVars, streamVars, monitorVars>>
    /\ UNCHANGED <<decodeVars, lockVars, deviceVars>>

\* Reactor::get, the dereference of the static REACTOR (Lazy::force): a
\* thread that finds the cell complete returns the Reactor; the one that
\* finds it incomplete marks it running and runs the closure; one that finds
\* it running waits; one that finds it poisoned panics.
GetForce(t) ==
    /\ getPc[t] = "out"
    /\ getCalls[t] < MaxGets
    /\ getCalls' = [getCalls EXCEPT ![t] = @ + 1]
    /\ CASE lazy = "complete" ->
               /\ got' = [got EXCEPT ![t] = reactor]
               /\ UNCHANGED <<lazy, getPc>>
         [] lazy = "incomplete" ->
               /\ lazy' = "running"
               /\ getPc' = [getPc EXCEPT ![t] = "spawn"]
               /\ UNCHANGED got
         [] lazy = "running" ->
               /\ getPc' = [getPc EXCEPT ![t] = "blocked"]
               /\ UNCHANGED <<lazy, got>>
         [] lazy = "poisoned" ->
               /\ getPc' = [getPc EXCEPT ![t] = "panicked"]
               /\ UNCHANGED <<lazy, got>>
    /\ UNCHANGED <<reactor, epFds, loops>>
    /\ UNCHANGED <<reactorVars, clientVars, streamVars, monitorVars>>
    /\ UNCHANGED <<decodeVars, lockVars, deviceVars>>

\* The closure of REACTOR, first statement: thread::spawn of the event loop,
\* whose thread starts with a Reactor::get of its own.
GetSpawn(t) ==
    /\ getPc[t] = "spawn"
    /\ loops' = Append(loops, LoopThread("get", 0))
    /\ getPc' = [getPc EXCEPT ![t] = "new"]
    /\ UNCHANGED <<lazy, reactor, getCalls, got, epFds>>
    /\ UNCHANGED <<reactorVars, clientVars, streamVars, monitorVars>>
    /\ UNCHANGED <<decodeVars, lockVars, deviceVars>>

\* The closure of REACTOR, second statement:
\* Reactor::new().expect("failed to create global event loop").  When
\* epoll_create1 fails the panic leaves the cell poisoned.
GetNew(t, createFails) ==
    /\ getPc[t] = "new"
    /\ IF createFails
       THEN /\ lazy' = "poisoned"
            /\ getPc' = [getPc EXCEPT ![t] = "panicked"]
            /\ UNCHANGED <<reactor, got, epFds>>
       ELSE /\ epFds' = epFds + 1
            /\ reactor' = epFds + 1
            /\ lazy' = "complete"
            /\ got' = [got EXCEPT ![t] = epFds + 1]
            /\ getPc' = [getPc EXCEPT ![t] = "out"]
    /\ UNCHANGED <<getCalls, loops>>
    /\ UNCHANGED <<reactorVars, clientVars, streamVars, monitorVars>>
    /\ UNCHANGED <<decodeVars, lockVars, deviceVars>>

\* A thread that waited for the closure of another resumes: it returns the
\* Reactor, or panics on a poisoned cell.
GetResume(t) ==
    /\ getPc[t] = "blocked"
    /\ lazy \in {"complete", "poisoned"}
    /\ IF lazy = "complete"
       THEN /\ got' = [got EXCEPT ![t] = reactor]
            /\ getPc' = [getPc EXCEPT ![t] = "out"]
       ELSE /\ getPc' = [getPc EXCEPT ![t] = "panicked"]
            /\ UNCHANGED got
    /\ UNCHANGED <<lazy, reactor, getCalls, epFds, loops>>
    /\ UNCHANGED <<reactorVars, clientVars, streamVars, monitorVars>>
    /\ UNCHANGED <<decodeVars, lockVars, deviceVars>>

\* The closure of the spawned thread: Reactor::get().run().  Its get waits
\* for the cell like any other; run then enters its loop on the Reactor it
\* was given.
LoopGet(k) ==
    /\ k <= Len(loops)
    /\ loops[k].pc = "get"
    /\ lazy \in {"complete", "poisoned"}
    /\ IF lazy = "complete"
       THEN /\ loops' = [loops EXCEPT ![k] = LoopThread("run", reactor)]
            /\ bgPc' = "wait"
       ELSE /\ loops' = [loops EXCEPT ![k] = LoopThread("panicked", 0)]
            /\ bgPc' = bgPc
    /\ UNCHANGED <<lazy, reactor, getPc, getCalls, got, epFds>>
    /\ UNCHANGED <<epoll, ready, wakers, woken, term, bgEvents, bgInvoked>>
    /\ UNCHANGED <<clientVars, streamVars, monitorVars, decodeVars, lockVars, deviceVars>>

\* --------------------------------------------- the Mutex of Reactor.wakers

\* The thread that holds the lock: "free", the event loop's ("loop") or the
\* caller's ("client").  A waker's wake() runs code of the task's executor
\* on the thread that invokes it; `reenters`: that code calls set_callback
\* or remove_interest on the Reactor before it returns.  Such a call locks
\* Reactor.wakers; on the thread that holds the lock Mutex::lock does not
\* return (it blocks for ever or panics): position "relock".

\* wake_ready, after epoll_wait: let mut wakers = self.wakers.lock().unwrap()
LkBgLock ==
    /\ bgPc = "notify"
    /\ lock = "free"
    /\ lock' = "loop"
    /\ bgPc' = "locked"
    /\ bgInvoked' = <<>>
    /\ UNCHANGED <<epoll, ready, wakers, woken, term, bgEvents>>
    /\ UNCHANGED <<clientVars, streamVars, monitorVars,
                   decodeVars, getVars, deviceVars>>

\* wake_ready, one iteration of `for event in events.iter()`: the waker
\* stored under the event's Interest is removed and invoked, with the guard
\* `wakers` alive.
LkBgWakeOne(reenters) ==
    /\ bgPc = "locked"
    /\ bgEvents # <<>>
    /\ bgEvents' = Tail(bgEvents)
    /\ LET interest == FromEpollEvent(Head(bgEvents)) IN
        IF interest \in DOMAIN wakers
        THEN /\ wakers' = Drop(wakers, interest)
             /\ woken' = Wake(woken, wakers[interest])
             /\ bgInvoked' = Append(bgInvoked, wakers[interest])
             /\ bgPc' = IF reenters THEN "relock" ELSE bgPc
        ELSE /\ ~reenters
             /\ UNCHANGED <<wakers, woken, bgInvoked, bgPc>>
    /\ UNCHANGED <<epoll, ready, term>>
    /\ UNCHANGED <<clientVars, streamVars, monitorVars, decodeVars, getVars>>
    /\ UNCHANGED <<lockVars, deviceVars>>

\* A wake_ready whose guard outlives the call.
LkBgKeepsLock ==
    /\ bgPc = "locked"
    /\ bgEvents = <<>>
    /\ bgPc' = IF term THEN "returned" ELSE "wait"
    /\ UNCHANGED <<epoll, ready, wakers, woken, term, bgEvents, bgInvoked>>
    /\ UNCHANGED <<clientVars, streamVars, monitorVars, decodeVars, getVars>>
    /\ UNCHANGED <<lockVars, deviceVars>>

\* wake_ready returns Ok(()): the guard `wakers` is dropped, and Reactor::run
\* tests `term`.
LkBgUnlock ==
    /\ bgPc = "locked"
    /\ bgEvents = <<>>
    /\ lock' = "free"
    /\ bgPc' = IF term THEN "returned" ELSE "wait"
    /\ UNCHANGED <<epoll, ready, wakers, woken, term, bgEvents, bgInvoked>>
    /\ UNCHANGED <<clientVars, streamVars, monitorVars,
                   decodeVars, getVars, deviceVars>>

\* Reactor::set_callback: self.wakers.lock().unwrap().insert(interest,
\* waker); the guard is a temporary of the statement.
LkSetCallback(interest) ==
    /\ lock = "free"
    /\ RcSetCallback(interest)

\* Reactor::remove_interest, second statement:
\* if let Some(waker) = self.wakers.lock().unwrap().remove(interest)
\* { waker.wake(); }  The guard is a temporary of the scrutinee: it lives
\* until the end of the `if let`, across waker.wake().
LkRemoveWake(reenters) ==
    /\ rcPc = "remove"
    /\ lock = "free"
    /\ IF rcArg \in DOMAIN wakers
       THEN /\ wakers' = Drop(wakers, rcArg)
            /\ woken' = Wake(woken, wakers[rcArg])
            /\ IF reenters
               THEN /\ lock' = "client"
                    /\ rcPc' = "relock"
                    /\ rcLast' = rcLast
               ELSE /\ lock' = "free"
                    /\ rcPc' = "idle"
                    /\ rcLast' = Called("remove", rcArg, "ok", wakers[rcArg])
       ELSE /\ ~reenters
            /\ rcPc' = "idle"
            /\ rcLast' = Called("remove", rcArg, "ok", 0)
            /\ UNCHANGED <<wakers, woken, lock>>
    /\ UNCHANGED <<epoll, ready, bgPc, term, bgEvents, bgInvoked>>
    /\ UNCHANGED <<nextWaker, rcArg, rcHeld>>
    /\ UNCHANGED <<streamVars, monitorVars, decodeVars, getVars, deviceVars>>

\* --------------------------------------------------------- specification

vars ==
    <<reactorVars, clientVars, streamVars, monitorVars, decodeVars, getVars,
      lockVars, deviceVars>>

\* The kernel, the registry, the client, the EventStream and the Monitor
\* before any of them has acted.
IdleInit ==
    /\ epoll = Empty
    /\ ready = <<>>
    /\ wakers = Empty
    /\ woken = [w \in Wakers |-> 0]
    /\ nextWaker = 1
    /\ term = FALSE
    /\ bgEvents = <<>>
    /\ bgInvoked = <<>>
    /\ rcPc = "idle"
    /\ rcArg = Interest(PipeFd, {"IN"})
    /\ rcLast = NoCall
    /\ rcHeld = 0
    /\ devQueue = <<>>
    /\ esState = "none"
    /\ have_interest = FALSE
    /\ esPc = "idle"
    /\ esLast = Did("none", "none", 0)
    /\ esGone = "no"
    /\ esFailed = FALSE
    /\ esRemoves = 0
    /\ esPanic = FALSE
    /\ monState = "none"
    /\ monDiscover = FALSE
    /\ mon_fd = "None"
    /\ enumerated = FALSE
    /\ monEnum = <<>>
    /\ monHot = <<>>
    /\ monPc = "idle"
    /\ monOut = <<>>
    /\ monInit = <<>>
    /\ monPlugged = <<>>
    /\ monRemoves = 0
    /\ monPanic = FALSE
    /\ lock = "free"
    /\ es2State = "none"
    /\ es2Last = Did("none", "none", 0)
    /\ es2News = 0
    /\ core_open = FALSE
    /\ ifaces = {}
    /\ coreWr = FALSE
    /\ coreBy = "none"
    /\ devLast = [op |-> "connect", res |-> "ok", opened |-> FALSE, seq |-> 0]
    /\ rumbles = 0

\* The process once Reactor::get has returned for the first time: REACTOR
\* holds the Reactor and the event loop runs on it.
IoInit ==
    /\ IdleInit
    /\ bgPc = "wait"
    /\ lazy = "complete"
    /\ reactor = 1
    /\ getPc = [t \in Threads |-> "out"]
    /\ getCalls = [t \in Threads |-> 0]
    /\ got = [t \in Threads |-> 0]
    /\ epFds = 1
    /\ loops = <<LoopThread("run", 1)>>

\* LightsDisplay::new, before the first update; no time stamp computed.
AppInit ==
    /\ metric = "Battery"
    /\ lights = [res |-> "none", level |-> 0, last_ix |-> 1, lit |-> {},
                 seq |-> 0]
    /\ tv \in {t \in TimeVals : t.tv_sec = 0 /\ t.tv_usec = 0}
    /\ time = [kind |-> "none", secs |-> 0, nanos |-> 0]

Init ==
    /\ IoInit
    /\ AppInit
    /\ raw = NoRecord
    /\ parsed = NotParsed
    /\ prevRaw = NoRecord
    /\ prevParsed = NotParsed

\* The decoder before a record of the device's.
DecodeInit ==
    /\ IoInit
    /\ AppInit
    /\ raw \in Records
    /\ parsed = NotParsed
    /\ prevRaw = NoRecord
    /\ prevParsed = NotParsed

\* Event::parse before the time stamp of a record of the device's.
TimeInit ==
    /\ IoInit
    /\ metric = "Battery"
    /\ lights = [res |-> "none", level |-> 0, last_ix |-> 1, lit |-> {},
                 seq |-> 0]
    /\ tv \in TimeVals
    /\ time = [kind |-> "none", secs |-> 0, nanos |-> 0]
    /\ raw = NoRecord
    /\ parsed = NotParsed
    /\ prevRaw = NoRecord
    /\ prevParsed = NotParsed

Next ==
    \/ BgWait
    \/ BgWake
    \/ \E rev \in Masks : ClientReadiness(rev)
    \/ \E interest \in ClientInterests : RcAddInterest(interest)
    \/ \E interest \in ClientInterests : RcSetCallback(interest)
    \/ \E interest \in ClientInterests : RcRemoveInterest(interest)
    \/ RcRemoveWake

Spec == Init /\ [][Next]_vars

\* The device, one EventStream over it at a time, and the event loop.
StreamNext ==
    \/ BgWait
    \/ BgWake
    \/ \E type \in RawTypes, rev \in Masks : DeviceEvent(type, rev)
    \/ \E rev \in Masks : ESNew(rev)
    \/ \E res \in {"none", "event", "EAGAIN", "error"} : ESPoll(res)
    \/ ESPollPending
    \/ ESRemoveWake
    \/ ESDrop

\* The event loop runs on a thread of its own (thread::spawn in
\* Reactor::get): it is not starved.
StreamSpec ==
    Init /\ [][StreamNext]_vars /\ WF_vars(BgWait) /\ WF_vars(BgWake)

\* StreamSpec with a kernel that always reports every condition the
\* descriptor is registered for, so that the Interest rebuilt from a report
\* equals the registered one.
ExactStreamNext ==
    \/ BgWait
    \/ BgWake
    \/ \E type \in RawTypes : DeviceEvent(type, EPOLL_EVENTS)
    \/ ESNew(EPOLL_EVENTS)
    \/ \E res \in {"none", "event", "EAGAIN", "error"} : ESPoll(res)
    \/ ESPollPending
    \/ ESRemoveWake
    \/ ESDrop

ExactStreamSpec ==
    Init /\ [][ExactStreamNext]_vars /\ WF_vars(BgWait) /\ WF_vars(BgWake)

\* StreamSpec with a kernel whose EPOLL_CTL_DEL may fail.
FaultStreamNext ==
    \/ BgWait
    \/ BgWake
    \/ \E type \in RawTypes, rev \in Masks : DeviceEvent(type, rev)
    \/ \E rev \in Masks : ESNew(rev)
    \/ \E res \in {"none", "event", "EAGAIN", "error"}, ctlFails \in BOOLEAN :
          ESPollCtl(res, ctlFails)
    \/ ESPollPending
    \/ ESRemoveWake
    \/ \E ctlFails \in BOOLEAN : ESDropCtl(ctlFails)

FaultStreamSpec ==
    Init /\ [][FaultStreamNext]_vars /\ WF_vars(BgWait) /\ WF_vars(BgWake)

\* StreamSpec with further calls of Device::events on the same Device.
DupStreamNext ==
    \/ BgWait
    \/ BgWake
    \/ \E type \in RawTypes, rev \in Masks : DeviceEvent(type, rev)
    \/ \E rev \in Masks : ESNew(rev)
    \/ \E res \in {"none", "event", "EAGAIN", "error"} : ESPoll(res)
    \/ ESPollPending
    \/ ESRemoveWake
    \/ ESDrop
    \/ \E rev \in Masks : ESNewSecond(rev)
    \/ ES2Drop

DupStreamSpec ==
    Init /\ [][DupStreamNext]_vars /\ WF_vars(BgWait) /\ WF_vars(BgWake)

\* wiinote's main loop: find_device, again and again, with the event loop
\* and the devices that are plugged in meanwhile.
FindNext ==
    \/ BgWait
    \/ BgWake
    \/ \E discover \in BOOLEAN, connected \in SeqsUpTo(Addresses, MaxEnum) :
          MonNew(discover, connected)
    \/ \E address \in Addresses, rev \in Masks : HotPlug(address, rev)
    \/ FindPoll
    \/ \E rev \in Masks : MonAddInterest(rev)
    \/ MonPollPending
    \/ FindDrop
    \/ MonDropWake

FindSpec ==
    Init /\ [][FindNext]_vars /\ WF_vars(BgWait) /\ WF_vars(BgWake)

\* Device::battery: the battery level, a percentage; the values around the
\* multiples of 30 and the ends of the range.
BatteryLevels == {0, 1, 29, 30, 31, 59, 60, 61, 89, 90, 91, 99, 100}

\* The lights of a Wii Remote used as a display by wiinote.
DisplayNext ==
    \/ \E battery \in BatteryLevels, battFails \in BOOLEAN, failAt \in 0..4 :
          DisplayUpdate(battery, battFails, failAt)
    \/ \E to \in {"Battery", "Connection"}, battery \in BatteryLevels,
          battFails \in BOOLEAN, failAt \in 0..4 :
            DisplaySetMetric(to, battery, battFails, failAt)

DisplaySpec == Init /\ [][DisplayNext]_vars

\* The time stamps Event::parse attaches to the records.
TimeSpec == TimeInit /\ [][ParseTime]_vars

\* A Device and the calls that open and close its channels.
DeviceNext ==
    \/ \E channels \in ChannelSets, writable \in BOOLEAN,
          done \in SUBSET {CORE, ACCELEROMETER} :
            DevOpen(channels, writable, done)
    \/ \E channels \in ChannelSets : DevClose(channels)
    \/ \E done \in SUBSET {CORE}, rumbleFails \in BOOLEAN :
            DevSetRumble(done, rumbleFails)

DeviceSpec == Init /\ [][DeviceNext]_vars

\* StreamSpec with the records of the device and their decoding.
PollDecodeNext ==
    \/ BgWait
    \/ BgWake
    \/ \E type \in RawTypes, rev \in Masks : DeviceEvent(type, rev)
    \/ \E rev \in Masks : ESNew(rev)
    \/ \E res \in {"none", "event", "EAGAIN", "error"}, rec \in PolledRecords :
          ESPollDecode(res, rec)
    \/ ESPollPending
    \/ ESRemoveWake
    \/ ESDrop

PollDecodeSpec ==
    Init /\ [][PollDecodeNext]_vars /\ WF_vars(BgWait) /\ WF_vars(BgWake)

\* The Reactor with a client that watches several descriptors, so that one
\* epoll_wait can return several events.
PassNext ==
    \/ BgWait
    \/ BgWake
    \/ \E fd \in PassFds : FdReadiness(fd, {"IN"})
    \/ \E interest \in PassInterests : RcAddInterest(interest)
    \/ \E interest \in PassInterests : RcSetCallback(interest)
    \/ \E interest \in PassInterests : RcRemoveInterest(interest)
    \/ RcRemoveWake

PassSpec == Init /\ [][PassNext]_vars

\* The event loop with a device's EventStream as the source of readiness,
\* in a process that may receive SIGTERM.
TermNext ==
    \/ BgWait
    \/ BgWake
    \/ \E type \in RawTypes, rev \in Masks : DeviceEvent(type, rev)
    \/ \E rev \in Masks : ESNew(rev)
    \/ \E res \in {"none", "event", "EAGAIN", "error"} : ESPoll(res)
    \/ ESPollPending
    \/ ESRemoveWake
    \/ ESDrop
    \/ \E thread \in {"main", "loop"}, inEpollWait \in BOOLEAN :
          SigTerm(thread, inEpollWait)

TermSpec ==
    Init /\ [][TermNext]_vars /\ WF_vars(BgWait) /\ WF_vars(BgWake)

\* TermSpec with an epoll_wait that may fail.
RunNext ==
    \/ BgWait
    \/ BgWake
    \/ \E type \in RawTypes, rev \in Masks : DeviceEvent(type, rev)
    \/ \E rev \in Masks : ESNew(rev)
    \/ \E res \in {"none", "event", "EAGAIN", "error"} : ESPoll(res)
    \/ ESPollPending
    \/ ESRemoveWake
    \/ ESDrop
    \/ \E thread \in {"main", "loop"}, inEpollWait \in BOOLEAN :
          SigTerm(thread, inEpollWait)
    \/ BgWaitFails

RunSpec ==
    Init /\ [][RunNext]_vars /\ WF_vars(BgWait) /\ WF_vars(BgWake)

\* Event::parse over the records of a device.
DecodeNext ==
    \/ Parse
    \/ \E rec \in Records : Dispatch(rec)

DecodeSpec == DecodeInit /\ [][DecodeNext]_vars

\* The process before any thread has called Reactor::get.
GetInit ==
    /\ IdleInit
    /\ bgPc = "unborn"
    /\ lazy = "incomplete"
    /\ reactor = 0
    /\ getPc = [t \in Threads |-> "out"]
    /\ getCalls = [t \in Threads |-> 0]
    /\ got = [t \in Threads |-> 0]
    /\ epFds = 0
    /\ loops = <<>>
    /\ AppInit
    /\ raw = NoRecord
    /\ parsed = NotParsed
    /\ prevRaw = NoRecord
    /\ prevParsed = NotParsed

\* Threads calling Reactor::get, from the first call on.
GetNext ==
    \/ \E t \in Threads : GetForce(t)
    \/ \E t \in Threads : GetSpawn(t)
    \/ \E t \in Threads, createFails \in BOOLEAN : GetNew(t, createFails)
    \/ \E t \in Threads : GetResume(t)
    \/ \E k \in Threads : LoopGet(k)

GetSpec == GetInit /\ [][GetNext]_vars

\* The Reactor and its direct client with the steps of the event loop and
\* of remove_interest taken apart at the lock of Reactor.wakers.
LockNext ==
    \/ BgWait
    \/ LkBgLock
    \/ \E reenters \in BOOLEAN : LkBgWakeOne(reenters)
    \/ LkBgUnlock
    \/ \E rev \in ClientMasks : ClientReadiness(rev)
    \/ \E interest \in ClientInterests : RcAddInterest(interest)
    \/ \E interest \in ClientInterests : LkSetCallback(interest)
    \/ \E interest \in ClientInterests : RcRemoveInterest(interest)
    \/ \E reenters \in BOOLEAN : LkRemoveWake(reenters)

LockSpec == Init /\ [][LockNext]_vars

\* ------------------------------------------------- claims on the Reactor

\* C1: on a fresh Reactor add_interest(i) succeeds; an add_interest(i) that
\* immediately follows a successful add_interest(i) fails and leaves the
\* registration as it was; an add_interest(i) that follows a successful
\* remove_interest(i) succeeds.
C1_DoubleAddFails ==
    [][\A i \in ClientInterests : RcAddInterest(i) =>
          /\ epoll = Empty =>
                /\ Was(rcLast', "add", i, "ok")
                /\ epoll'[i.fd] = ToEpollEvent(i)
          /\ Was(rcLast, "add", i, "ok") =>
                /\ Was(rcLast', "add", i, "err")
                /\ epoll' = epoll
          /\ Was(rcLast, "remove", i, "ok") =>
                /\ Was(rcLast', "add", i, "ok")
                /\ epoll'[i.fd] = ToEpollEvent(i)]_vars

\* A second add_interest(i) has just failed with i's registration in place.
C1_Witness ==
    \E i \in ClientInterests :
        /\ Was(rcLast, "add", i, "err")
        /\ i.fd \in DOMAIN epoll
        /\ epoll[i.fd] = ToEpollEvent(i)

\* The interest i is the one registered for its descriptor.
Registered(i) == i.fd \in DOMAIN epoll /\ epoll[i.fd] = ToEpollEvent(i)

\* C2: after add_interest(i) and set_callback(i, w), when the kernel reports
\* conditions within i's event mask on i's descriptor, the wake pass that
\* handles the report invokes w (if w is still the continuation stored for
\* the registered interest i when the pass runs).
C2_ReadinessWakes ==
    [][BgWake =>
          \A k \in 1..Len(bgEvents) : \A i \in DOMAIN wakers :
              (/\ Registered(i)
               /\ bgEvents[k].u64 = i.fd
               /\ bgEvents[k].heard = wakers[i]
               /\ bgEvents[k].events \subseteq i.events)
              => woken'[wakers[i]] = woken[wakers[i]] + 1]_vars

\* C3: a continuation is invoked at most once per set_callback, and once it
\* has been invoked the registry holds no entry for it, so a further
\* readiness report invokes nothing.
C3_AtMostOnce ==
    \A w \in DOMAIN woken :
        /\ woken[w] <= 1
        /\ woken[w] = 1 => \A i \in DOMAIN wakers : wakers[i] # w

\* A wake pass has invoked a stored continuation.
C3_Witness ==
    /\ bgInvoked # <<>>
    /\ woken[bgInvoked[1]] = 1

\* C4: remove_interest(i) leaves i's descriptor out of the kernel interest
\* list and i out of the registry, and a continuation stored for i when the
\* registry is reached is invoked by the removal.
C4_RemoveWakes ==
    [][RcRemoveWake =>
          /\ rcArg.fd \notin DOMAIN epoll'
          /\ rcArg \notin DOMAIN wakers'
          /\ rcArg \in DOMAIN wakers =>
                /\ woken'[wakers[rcArg]] = woken[wakers[rcArg]] + 1
                /\ rcLast'.woke = wakers[rcArg]]_vars

\* A remove_interest has completed and invoked the stored continuation.
C4_Witness ==
    /\ rcLast.op = "remove"
    /\ rcLast.res = "ok"
    /\ rcLast.woke # 0
    /\ woken[rcLast.woke] = 1
    /\ rcLast.interest \notin DOMAIN wakers
    /\ rcLast.interest.fd \notin DOMAIN epoll

\* The waker w is stored in the registry.
Stored(w) == \E i \in DOMAIN wakers : wakers[i] = w

\* C21: set_callback(i, w2) replaces a waker w1 stored for i: the registry
\* then holds w2 under i and w1 nowhere, the call invokes nothing, and a
\* waker that is no longer in the registry is not invoked by any later
\* readiness report or removal.
C21_LastWriteWins ==
    [][/\ \A i \in ClientInterests : RcSetCallback(i) =>
             /\ wakers'[i] = nextWaker
             /\ DOMAIN wakers' = DOMAIN wakers \cup {i}
             /\ i \in DOMAIN wakers =>
                    \A j \in DOMAIN wakers' : wakers'[j] # wakers[i]
             /\ woken' = woken
       /\ \A w \in 1..MaxCallbacks :
             (w < nextWaker /\ ~Stored(w)) => woken'[w] = woken[w]]_vars

\* The first waker was replaced by the second under the same interest, and
\* only the second has been invoked.
C21_Witness ==
    /\ nextWaker = 3
    /\ ~Stored(1)
    /\ woken[1] = 0
    /\ woken[2] = 1

\* C22: when remove_interest(i) runs while the event loop handles a report
\* for i's descriptor, the waker that was stored for i when the removal
\* was called has been invoked exactly once by the time the removal
\* returns, by the wake pass or by the removal, and never twice.
C22_RaceWakesOnce ==
    /\ (rcPc = "remove" /\ rcHeld # 0) => woken[rcHeld] <= 1
    /\ (rcPc = "idle" /\ rcLast.op = "remove" /\ rcLast.res = "ok"
            /\ rcHeld # 0) =>
          /\ woken[rcHeld] = 1
          /\ ~Stored(rcHeld)
          /\ rcLast.woke \in {0, rcHeld}

\* The wake pass won the race: the removal found the registry entry gone,
\* and the waker it was stored with has been invoked by the wake pass.
C22_Witness ==
    /\ rcPc = "idle"
    /\ rcLast.op = "remove"
    /\ rcLast.res = "ok"
    /\ rcLast.woke = 0
    /\ rcHeld # 0
    /\ woken[rcHeld] = 1
    /\ rcHeld \in {bgInvoked[k] : k \in 1..Len(bgInvoked)}

\* C23: however the threads' first calls of Reactor::get interleave, the
\* process creates at most one epoll descriptor and starts at most one
\* event-loop thread; once a call has returned, exactly one of each exists,
\* every call has returned the Reactor stored in REACTOR, and the event
\* loop runs on that Reactor.
C23_Singleton ==
    /\ epFds <= 1
    /\ Len(loops) <= 1
    /\ \A t \in Threads : got[t] # 0 =>
          /\ epFds = 1
          /\ Len(loops) = 1
          /\ got[t] = reactor
    /\ \A k \in 1..Len(loops) : loops[k].pc = "run" =>
          /\ reactor # 0
          /\ loops[k].on = reactor
          /\ \A t \in Threads : got[t] \in {0, loops[k].on}

\* Two threads raced on the first call: one ran the closure and has the
\* Reactor, the other called while the closure ran and still waits, and
\* the event loop already runs on that Reactor.
C23_Witness ==
    \E t, u \in Threads :
        /\ t # u
        /\ got[t] = 1
        /\ getPc[u] = "blocked"
        /\ epFds = 1
        /\ loops = <<LoopThread("run", 1)>>

\* C24: the event loop does not hold the lock of the registry while it is
\* blocked in epoll_wait: it takes the lock only once the wait has
\* returned, and a caller that is about to call set_callback, or has
\* reached the lock of remove_interest, while the loop waits finds the lock
\* free.
C24_NoLockInWait ==
    /\ [](bgPc = "wait" => lock # "loop")
    /\ [][(lock # "loop" /\ lock' = "loop")
            => (bgPc = "notify" /\ bgPc' = "locked")]_vars
    /\ []((bgPc = "wait" /\ rcPc \in {"idle", "remove"}) => lock = "free")

\* The loop has finished a wake pass under the lock and waits again with
\* the lock free; the caller has stored another waker since.
C24_Witness ==
    /\ bgPc = "wait"
    /\ lock = "free"
    /\ bgInvoked = <<1>>
    /\ rcLast.op = "set_callback"
    /\ Stored(2)

\* C25: the Reactor does not hold the lock of the registry while it
\* invokes a waker, in the wake pass or in remove_interest: a waker whose
\* wake() calls set_callback or remove_interest on the Reactor never leaves
\* a thread waiting for a lock that the same thread holds.
C25_NoLockAcrossWake ==
    /\ ~(bgPc = "relock" /\ lock = "loop")
    /\ ~(rcPc = "relock" /\ lock = "client")

\* C26: add_interest(i) fails exactly when i itself, descriptor and event
\* mask, is registered; with (d, m1) registered, add_interest of (d, m2),
\* m2 different from m1, succeeds.
C26_ConflictByInterest ==
    [][\A i \in ClientInterests : RcAddInterest(i) =>
          (rcLast'.res = "err" <=> Registered(i))]_vars

\* C29: a remove_interest(i) whose EPOLL_CTL_DEL fails (i's descriptor is
\* not in the interest list) returns the error and leaves the registry as
\* it was: a waker stored under i is neither removed nor invoked.
C29_FailedRemoveKeepsWaker ==
    [][\A i \in ClientInterests :
          (RcRemoveInterest(i) /\ ~CtlDelOk(i)) =>
             /\ rcLast' = Called("remove", i, "err", 0)
             /\ rcPc' = "idle"
             /\ UNCHANGED <<wakers, woken, epoll>>]_vars

\* A removal has just failed for an interest that has a waker stored:
\* the waker is still stored and has not been invoked.
C29_Witness ==
    /\ rcPc = "idle"
    /\ rcLast.op = "remove"
    /\ rcLast.res = "err"
    /\ rcLast.interest \in DOMAIN wakers
    /\ woken[wakers[rcLast.interest]] = 0
    /\ rcLast.interest.fd \notin DOMAIN epoll

\* The Monitor over the connected and hot-plugged devices, and the event
\* loop.
MonitorNext ==
    \/ BgWait
    \/ BgWake
    \/ \E discover \in BOOLEAN, connected \in SeqsUpTo(Addresses, MaxEnum) :
          MonNew(discover, connected)
    \/ \E address \in Addresses, rev \in Masks : HotPlug(address, rev)
    \/ MonPoll
    \/ \E rev \in Masks : MonAddInterest(rev)
    \/ MonPollPending
    \/ MonDrop
    \/ MonDropWake

MonitorSpec ==
    Init /\ [][MonitorNext]_vars /\ WF_vars(BgWait) /\ WF_vars(BgWake)

\* MonitorSpec with a kernel whose EPOLL_CTL_ADD may fail.
FaultMonitorNext ==
    \/ BgWait
    \/ BgWake
    \/ \E discover \in BOOLEAN, connected \in SeqsUpTo(Addresses, MaxEnum) :
          MonNew(discover, connected)
    \/ \E address \in Addresses, rev \in Masks : HotPlug(address, rev)
    \/ MonPoll
    \/ \E rev \in Masks, ctlFails \in BOOLEAN : MonAddInterestCtl(rev, ctlFails)
    \/ MonPollPending
    \/ MonDrop
    \/ MonDropWake

FaultMonitorSpec ==
    Init /\ [][FaultMonitorNext]_vars /\ WF_vars(BgWait) /\ WF_vars(BgWake)

\* C15: after the process has received SIGTERM the event loop eventually
\* leaves its wait cycle and Reactor::run returns Ok(()), also when the
\* loop is blocked in epoll_wait and no descriptor becomes ready.
C15_TermStopsLoop == term ~> (bgPc = "returned")

\* C16: while no termination signal has been received the event loop keeps
\* running: it is waiting for events or handling them.
C16_LoopRunsUntilTerm == ~term => bgPc \in {"wait", "notify"}

\* -------------------------------------------- claims on the EventStream

\* C5: once the stream has read the device-gone sentinel, every later poll
\* returns end-of-sequence and changes neither the device nor the Reactor;
\* the stream calls Reactor::remove_interest at most once in its lifetime,
\* and dropping it does not panic.
C5_GoneIsTerminal ==
    [][/\ (esGone # "no" /\ \E res \in {"none", "event", "EAGAIN", "error"} : ESPoll(res))
            => /\ esLast' = Did("poll", "None", 0)
               /\ esPc' = "idle"
               /\ UNCHANGED <<devQueue, reactorVars>>
       /\ esRemoves' <= 1
       /\ ~esPanic']_vars

\* A stream that read the sentinel, was polled again and was then dropped.
C5_Witness ==
    /\ esGone = "polled"
    /\ esLast = Did("drop", "ok", 0)
    /\ esState = "none"
    /\ esRemoves = 1
    /\ devQueue # <<>>

\* C9: once an EventStream has been dropped, its descriptor is not in the
\* kernel interest list and the registry holds no continuation under its
\* interest.
C9_DropDeregisters ==
    esState = "none" =>
        /\ DevFd \notin DOMAIN epoll
        /\ EsInterest \notin DOMAIN wakers

\* A stream was dropped while suspended: the drop invoked its continuation.
C9_Witness ==
    /\ esState = "none"
    /\ esLast = Did("drop", "ok", EsWaker)
    /\ esGone = "no"
    /\ woken[EsWaker] = 1

\* The stream's consumer is suspended (poll_next returned Pending and the
\* continuation it stored has not been invoked) while the device holds an
\* unread event, and could still receive more.
EsWaiting ==
    /\ esState = "active"
    /\ esPc = "idle"
    /\ esLast = Did("poll", "Pending", 0)
    /\ EsInterest \in DOMAIN wakers
    /\ woken[EsWaker] = 0
    /\ devQueue # <<>>
    /\ Len(devQueue) < MaxQueue

\* C10: no lost wake-up.  A consumer suspended while the device holds an
\* unread event does not stay so for ever: its continuation is invoked (or
\* it is polled or dropped for another reason).
C10_NoLostWakeup == EsWaiting ~> ~EsWaiting

\* C11: a poll of an active stream whose dispatch reports -EAGAIN returns
\* Pending, neither a value nor an error, and by the time it returns the
\* caller's waker is stored in the registry under the stream's interest
\* (EPOLLIN | EPOLLHUP | EPOLLPRI on the device's descriptor).
C11_WouldBlockSuspends ==
    [][/\ ESPoll("EAGAIN") =>
             /\ esPc' = "pending"
             /\ esLast' = esLast
             /\ UNCHANGED devQueue
       /\ (esPc = "pending" /\ esPc' # "pending") =>
             /\ esLast' = Did("poll", "Pending", 0)
             /\ EsInterest \in DOMAIN wakers'
             /\ wakers'[EsInterest] = EsWaker
             /\ EsInterest = Interest(DevFd, {"IN", "HUP", "PRI"})
             /\ UNCHANGED devQueue]_vars

\* A poll has just returned Pending with the waker stored.
C11_Witness ==
    /\ esState = "active"
    /\ esPc = "idle"
    /\ esLast = Did("poll", "Pending", 0)
    /\ devQueue = <<>>
    /\ EsInterest \in DOMAIN wakers
    /\ wakers[EsInterest] = EsWaker

\* C12: once a poll has returned the error of a failed dispatch (other
\* than -EAGAIN), no later poll of the stream yields an event or dispatches
\* again: it reads nothing from the device and does not suspend.
C12_ErrorIsTerminal ==
    [][(esFailed /\ \E res \in {"none", "event", "EAGAIN", "error"} : ESPoll(res))
          => /\ esLast'.res \notin RawTypes
             /\ esPc' = "idle"
             /\ UNCHANGED devQueue]_vars

\* The removal of the stream's interest asked for in this step fails.
RemovalFails(ctlFails) == ~(CtlDelOk(EsInterest) /\ ~ctlFails)

\* C13: when the stream reads the device-gone sentinel and the removal of
\* its interest fails, have_interest is cleared all the same and the poll
\* yields the error; every later poll yields end-of-sequence, and the drop
\* does not call the Reactor again and does not panic.
C13_FailedRemovalCloses ==
    [][/\ \A ctlFails \in BOOLEAN :
             (/\ have_interest
              /\ devQueue # <<>>
              /\ Head(devQueue) = "GONE"
              /\ RemovalFails(ctlFails)
              /\ ESPollCtl("event", ctlFails))
             => /\ ~have_interest'
                /\ esLast' = Did("poll", "Err", 0)
                /\ esPc' = "idle"
                /\ esState' = "active"
       /\ \A ctlFails \in BOOLEAN :
             \A res \in {"none", "event", "EAGAIN", "error"} :
                (esGone # "no" /\ ESPollCtl(res, ctlFails))
                => /\ esLast' = Did("poll", "None", 0)
                   /\ UNCHANGED <<devQueue, reactorVars>>
       /\ \A ctlFails \in BOOLEAN :
             (esGone # "no" /\ ESDropCtl(ctlFails))
             => /\ esRemoves' = esRemoves
                /\ ~esPanic'
                /\ esLast' = Did("drop", "ok", 0)
                /\ UNCHANGED reactorVars]_vars

\* The removal failed at the sentinel (the descriptor is still registered);
\* the stream was polled again and then dropped.
C13_Witness ==
    /\ esGone = "polled"
    /\ esState = "none"
    /\ esLast = Did("drop", "ok", 0)
    /\ esRemoves = 1
    /\ DevFd \in DOMAIN epoll
    /\ ~esPanic

\* C14: dropping a stream whose have_interest is set panics when the
\* Reactor fails to remove the interest; dropping one whose flag is clear
\* makes no Reactor call and does not panic.
C14_DropFaultsLoudly ==
    [][\A ctlFails \in BOOLEAN : ESDropCtl(ctlFails) =>
          /\ (have_interest /\ RemovalFails(ctlFails)) =>
                /\ esPanic'
                /\ esLast' = Did("drop", "panic", 0)
          /\ ~have_interest =>
                /\ esRemoves' = esRemoves
                /\ ~esPanic'
                /\ esLast' = Did("drop", "ok", 0)
                /\ UNCHANGED reactorVars]_vars

\* The drop of a stream with its interest registered has panicked.
C14_Witness ==
    /\ esPanic
    /\ esLast = Did("drop", "panic", 0)
    /\ esRemoves = 1
    /\ esGone = "no"
    /\ DevFd \in DOMAIN epoll

\* C30: while an EventStream exists, have_interest is set exactly when the
\* stream's interest is in the kernel interest list; the flag is set by
\* EventStream::new, is cleared only by a removal of the stream's own, and
\* once cleared stays so.
C30_FlagMirrorsRegistration ==
    /\ [](esState = "active" => (have_interest <=> Registered(EsInterest)))
    /\ [][/\ (esState = "none" /\ esState' = "active") => have_interest'
          /\ (esState = "active" /\ have_interest /\ ~have_interest')
                => esRemoves' = esRemoves + 1
          /\ (esState = "active" /\ esState' = "active" /\ ~have_interest)
                => ~have_interest']_vars

\* ----------------------------------------------- claims on Event::parse

\* Slot k of a record carries the missing-source value.
MissingSlot(r, k) ==
    r.abs[k].x = MISSING_SOURCE \/ r.abs[k].y = MISSING_SOURCE

C18_KeyStatesDistinct ==
    /\ (raw.type \in KeyTypes /\ parsed.kind \notin {"none", "panic"}) =>
          /\ raw.key.state = 0 => parsed.state = "Up"
          /\ raw.key.state = 1 => parsed.state = "Down"
          /\ raw.key.state = 2 => parsed.state = "AutoRepeat"
    /\ (/\ raw.type \in KeyTypes
        /\ prevRaw.type = raw.type
        /\ prevRaw.key.code = raw.key.code
        /\ prevRaw.key.state = 1
        /\ raw.key.state = 2
        /\ parsed.kind \notin {"none", "panic"}) =>
          /\ prevParsed.state = "Down"
          /\ parsed.state = "AutoRepeat"
          /\ parsed # prevParsed

\* The A key was decoded as Down and then as AutoRepeat.
C18_Witness ==
    /\ raw.type = "KEY"
    /\ raw.key = [code |-> "A", state |-> 2]
    /\ prevRaw.key = [code |-> "A", state |-> 1]
    /\ prevParsed = [kind |-> "Key", key |-> "A", state |-> "Down"]
    /\ parsed = [kind |-> "Key", key |-> "A", state |-> "AutoRepeat"]

\* The type tags of the driver's event kinds.
DefinedTypes == KeyTypes \cup AbsTypes \cup {"WATCH", "GONE"}

\* The key codes of the controller family of a key record's type.
KeysOf(type) ==
    CASE type = "KEY" -> Key
      [] type = "PRO_CONTROLLER_KEY" -> ProControllerKey
      [] type = "CLASSIC_CONTROLLER_KEY" -> ClassicControllerKey
      [] type = "NUNCHUK_KEY" -> NunchukKey
      [] type = "DRUMS_KEY" -> DrumsKey
      [] type = "GUITAR_KEY" -> GuitarKey

\* C19: a record with an unknown type tag, or a key record with a key code
\* unknown to its controller family or with an unknown key state, makes
\* Event::parse panic; it is not decoded into an Event.
C19_UnknownFaults ==
    parsed # NotParsed =>
        /\ raw.type \notin DefinedTypes => parsed.kind = "panic"
        /\ (/\ raw.type \in KeyTypes
            /\ \/ raw.key.code \notin KeysOf(raw.type)
               \/ raw.key.state \notin {0, 1, 2}) => parsed.kind = "panic"

\* A guitar key record with the state 3 has made Event::parse panic.
C19_Witness ==
    /\ raw.type = "GUITAR_KEY"
    /\ raw.key = [code |-> "FRET_MID", state |-> 3]
    /\ parsed = Panic("unknown key state")

\* The Event variant of each event kind of the driver.
VariantOf(type) ==
    CASE type = "KEY" -> "Key"
      [] type = "ACCEL" -> "Accelerometer"
      [] type = "IR" -> "Ir"
      [] type = "BALANCE_BOARD" -> "BalanceBoard"
      [] type = "MOTION_PLUS" -> "MotionPlus"
      [] type = "PRO_CONTROLLER_KEY" -> "ProControllerKey"
      [] type = "PRO_CONTROLLER_MOVE" -> "ProControllerMove"
      [] type = "WATCH" -> "Other"
      [] type = "CLASSIC_CONTROLLER_KEY" -> "ClassicControllerKey"
      [] type = "CLASSIC_CONTROLLER_MOVE" -> "ClassicControllerMove"
      [] type = "NUNCHUK_KEY" -> "NunchukKey"
      [] type = "NUNCHUK_MOVE" -> "NunchukMove"
      [] type = "DRUMS_KEY" -> "DrumsKey"
      [] type = "DRUMS_MOVE" -> "DrumsMove"
      [] type = "GUITAR_KEY" -> "GuitarKey"
      [] type = "GUITAR_MOVE" -> "GuitarMove"

\* C20: every record of one of the driver's event kinds other than
\* device-gone, with a valid payload (for a key record: a key of its family
\* and a state among 0, 1, 2), decodes to the Event variant of its kind.
C20_DecodeTotal ==
    (/\ parsed # NotParsed
     /\ raw.type \in DefinedTypes \ {"GONE"}
     /\ raw.type \in KeyTypes =>
           /\ raw.key.code \in KeysOf(raw.type)
           /\ raw.key.state \in {0, 1, 2})
    => parsed.kind = VariantOf(raw.type)

\* ------------------------------------------------ claims on the Monitor

\* The addresses among the results of the polls, in order.
Yielded(log) == SelectSeq(log, LAMBDA r : r \in Addresses)

IsPrefix(s, t) == Len(s) <= Len(t) /\ \A k \in 1..Len(s) : s[k] = t[k]

\* C6: a Monitor created for enumeration over the connected devices a1..an
\* yields a1..an in order and end-of-sequence from then on; it never returns
\* Pending, never registers its descriptor and never stores a waker.
C6_EnumerateThenDone ==
    ~monDiscover =>
        /\ \A k \in 1..Len(monOut) :
              monOut[k] = IF k <= Len(monInit) THEN monInit[k] ELSE "None"
        /\ MonFd \notin DOMAIN epoll
        /\ MonInterest \notin DOMAIN wakers

\* Polls of an enumerating Monitor over two devices went past the end twice.
C6_Witness ==
    /\ monState = "active"
    /\ ~monDiscover
    /\ monInit = <<"A", "B">>
    /\ monOut = <<"A", "B", "None", "None">>

\* C7: a Monitor created for discovery yields the connected devices, then
\* the hot-plugged ones, in order; it returns Pending only when
\* xwii_monitor_poll had no device to return, and never end-of-sequence.
C7_DiscoverNeverEnds ==
    /\ [](monDiscover =>
            /\ \A k \in 1..Len(monOut) :
                  monOut[k] \in Addresses \cup {"Pending"}
            /\ IsPrefix(Yielded(monOut), monInit \o monPlugged))
    /\ [][monPc # "pending" /\ monPc' = "pending"
            => monEnum = <<>> /\ monHot = <<>>]_vars

\* Over [A] with C hot-plugged later, the polls gave A, Pending, C.
C7_Witness ==
    /\ monState = "active"
    /\ monDiscover
    /\ monInit = <<"A">>
    /\ monPlugged = <<"C">>
    /\ monOut = <<"A", "Pending", "C">>

\* C8: dropping a Monitor calls Reactor::remove_interest exactly when its
\* descriptor is registered, does not panic, and the handle is released
\* only with the descriptor out of the interest list.
C8_DropRemovesIffRegistered ==
    /\ [][MonDrop =>
            /\ (monRemoves' # monRemoves) <=> (MonFd \in DOMAIN epoll)
            /\ ~monPanic']_vars
    /\ [](monState = "none" => MonFd \notin DOMAIN epoll)

C28_SuspendedIsRegistered ==
    [][/\ MonPollPending =>
             /\ Registered(MonInterest)
             /\ WakerOf(MonInterest)' = MonWaker
       /\ ESPollPending =>
             /\ Registered(EsInterest)
             /\ WakerOf(EsInterest)' = EsWaker]_vars

Reported == {FromEpollEvent(bgEvents[k]) : k \in 1..Len(bgEvents)}

\* C32: a wake pass leaves the wakers stored under interests that none of
\* its events reports where they are, and does not invoke them; a
\* remove_interest(i) does the same for the wakers stored under interests
\* other than i.
C32_OthersUntouched ==
    /\ [][BgWake => \A i \in DOMAIN wakers : i \notin Reported =>
              /\ i \in DOMAIN wakers'
              /\ wakers'[i] = wakers[i]
              /\ woken'[wakers[i]] = woken[wakers[i]]]_vars
    /\ [][RcRemoveWake => \A i \in DOMAIN wakers : i # rcArg =>
              /\ i \in DOMAIN wakers'
              /\ wakers'[i] = wakers[i]
              /\ woken'[wakers[i]] = woken[wakers[i]]]_vars

\* A wake pass has invoked one waker while another, stored under an
\* interest that was registered but not reported, is still stored and was
\* never invoked.
C32_Witness ==
    /\ bgPc = "wait"
    /\ Len(bgInvoked) = 1
    /\ \E i \in DOMAIN wakers :
          /\ i.fd \in DOMAIN epoll
          /\ wakers[i] # bgInvoked[1]
          /\ woken[wakers[i]] = 0

\* C34: the wakers a wake pass invokes are, in the order of invocation, the
\* wakers stored under the interests of the events that epoll_wait
\* returned, in the order of the events in the buffer.
C34_KernelOrder ==
    [][BgWake =>
        LET hits == {k \in 1..Len(bgEvents) :
                        FromEpollEvent(bgEvents[k]) \in DOMAIN wakers}
            rank(k) == Cardinality({j \in hits : j <= k})
        IN /\ Len(bgInvoked') = Cardinality(hits)
           /\ \A k \in hits :
                 bgInvoked'[rank(k)] = wakers[FromEpollEvent(bgEvents[k])]]_vars

\* A wake pass has invoked two wakers.
C34_Witness ==
    /\ bgPc = "wait"
    /\ Len(bgInvoked) = 2
    /\ bgInvoked[1] # bgInvoked[2]

\* C33: whatever the dispatch returns, poll by poll, a record tagged
\* XWII_EVENT_GONE is handled by poll_next itself and never handed to
\* Event::parse: the stream never faults with "unexpected removal event".
C33_GoneNotDecoded ==
    /\ raw.type = "GONE" => parsed = NotParsed
    /\ \A p \in {parsed, prevParsed} :
          ~(p.kind = "panic" /\ p.msg = "unexpected removal event")

\* The stream has decoded a key event and then read XWII_EVENT_GONE.
C33_Witness ==
    /\ raw = GoneRecord
    /\ esGone = "seen"
    /\ prevParsed.kind = "Key"
    /\ esLast = Did("poll", "None", 0)

\* C35: core_open is true only if the last successful call that opened or
\* closed the core channel was an open of CORE in writable mode; a close of
\* a set with CORE clears it; a failed open leaves it as it was; set_rumble
\* calls xwii_iface_rumble only with core_open true, opens CORE first when
\* it is false and, when that open fails, returns its error without the
\* rumble call.
C35_CoreTracking ==
    /\ [](core_open => coreBy = "open_rw")
    /\ [][\A channels \in ChannelSets :
            (DevClose(channels) /\ CORE \in channels) => ~core_open']_vars
    /\ [][(devLast'.seq # devLast.seq /\ devLast'.op = "open"
                /\ devLast'.res = "err") => core_open' = core_open]_vars
    /\ [][(devLast'.seq # devLast.seq /\ devLast'.op = "set_rumble") =>
            /\ rumbles' # rumbles => core_open'
            /\ devLast'.opened <=> ~core_open
            /\ devLast'.res = "err_open" =>
                  (rumbles' = rumbles /\ ~core_open /\ ~core_open')]_vars

\* C36: find_device(true) never produces Ok(None): it produces the first
\* enumerated address when a device is connected and otherwise an address
\* that was hot-plugged while it was suspended, and dropping its Monitor
\* does not fault; find_device(false) produces Ok(None) exactly when no
\* device is connected.
C36_FindDevice ==
    /\ monDiscover =>
          /\ FindResult # "None"
          /\ (monInit # <<>> /\ FindResult # "Pending") =>
                FindResult = monInit[1]
          /\ (monInit = <<>> /\ FindResult \in Addresses) =>
                /\ monPlugged # <<>>
                /\ FindResult = monPlugged[1]
    /\ ~monPanic
    /\ (~monDiscover /\ FindResult # "Pending") =>
          /\ FindResult = "None" <=> monInit = <<>>
          /\ FindResult # "None" => FindResult = monInit[1]

\* C37: after an update that set the four lights, for either metric, the
\* level is in 0..100, last_ix = 1 + level / 30 is in 1..4, and LED k is lit
\* exactly when k <= last_ix.
C37_LevelToLeds ==
    lights.res = "ok" =>
        /\ lights.level \in 0..100
        /\ lights.last_ix = 1 + (lights.level \div 30)
        /\ lights.last_ix \in 1..4
        /\ \A k \in 1..4 : k \in lights.lit <=> k <= lights.last_ix

\* C38: for a record whose tv_usec is in 0..999999 the time stamp is the
\* epoch plus tv_sec seconds plus tv_usec microseconds, and the product
\* tv_usec * 1000 did not overflow its u32.
C38_TimeStamp ==
    (time.kind # "none" /\ tv.tv_usec \in 0..999999) =>
        /\ time.kind = "time"
        /\ time.secs = tv.tv_sec
        /\ time.nanos \div 1000 = tv.tv_usec
        /\ time.nanos % 1000 = 0

\* The time stamp of a record with the largest tv_usec of a timeval.
C38_Witness ==
    /\ time.kind = "time"
    /\ tv.tv_usec = 999999
    /\ tv.tv_sec = 1700000000
    /\ time.nanos = 999999000

====
